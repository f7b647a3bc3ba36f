-------------------------- MODULE OrderDeskProofs --------------------------
(***************************************************************************)
(* The safety invariants of OrderDesk for any number of intents, rows,     *)
(* submissions and pages: what a cursor walk has read when it ends, and    *)
(* that reconciling through it places no order twice.                      *)
(***************************************************************************)
EXTENDS OrderDesk, FiniteSetTheorems, WellFoundedInduction, TLAPS

\* A leaf that names no prover goes to Zenon; arithmetic goes to SMT.
USE ZenonT(20)

-----------------------------------------------------------------------------
(* Finite sets of naturals                                                 *)

LEMMA LeastExists ==
    ASSUME NEW S \in SUBSET Nat, S # {}
    PROVE  \E x \in S : \A y \in S : x <= y
<1>1. PICK x \in S : \A y \in S : ~(<<y, x>> \in OpToRel(<, Nat))
  BY NatLessThanWellFounded, WFMin
<1>2. ASSUME NEW y \in S, y < x PROVE FALSE
  <2>1. <<y, x>> \in Nat \X Nat /\ <<y, x>>[1] < <<y, x>>[2]
    BY <1>2
  <2>2. <<y, x>> \in OpToRel(<, Nat)
    BY <2>1 DEF OpToRel
  <2> QED BY <1>1, <2>2
<1>3. \A y \in S : x <= y
  BY SMTT(20), <1>2
<1> QED BY <1>3

LEMMA GreatestExists ==
    ASSUME NEW S, NEW n \in Nat, S \subseteq 0..n, S # {}
    PROVE  Max(S) \in S /\ \A y \in S : y <= Max(S)
<1> DEFINE T == {n - x : x \in S}
<1>1. T \in SUBSET Nat /\ T # {}
  <2>1. \A x \in S : n - x \in Nat
    BY SMTT(20)
  <2> QED BY <2>1
<1>2. PICK t \in T : \A u \in T : t <= u
  BY <1>1, LeastExists
<1>3. PICK x \in S : t = n - x
  BY <1>2
<1>4. \A y \in S : y <= x
  <2> TAKE y \in S
  <2>1. n - y \in T
    OBVIOUS
  <2>2. t <= n - y
    BY <1>2, <2>1
  <2> QED BY SMTT(20), <1>3, <2>2
<1>5. \E m \in S : \A y \in S : m >= y
  BY <1>4
<1>6. Max(S) \in S /\ \A y \in S : Max(S) >= y
  BY <1>5 DEF Max
<1> QED BY <1>6

Below(S, n) == {k \in S : k < n}

LEMMA BelowIsFinite ==
    ASSUME NEW S, NEW n \in Nat, S \subseteq 0..n, NEW T \in SUBSET S
    PROVE  IsFiniteSet(T) /\ Cardinality(T) \in Nat
<1>1. IsFiniteSet(0..n)
  BY SMTT(20), FS_Interval
<1>2. IsFiniteSet(T)
  BY <1>1, FS_Subset
<1> QED BY <1>2, FS_CardinalityType

LEMMA SmallerIsFewer ==
    ASSUME NEW S, NEW n \in Nat, S \subseteq 0..n, NEW T \in SUBSET S, NEW U \in SUBSET T
    PROVE  /\ Cardinality(U) \in Nat /\ Cardinality(T) \in Nat
           /\ Cardinality(U) <= Cardinality(T)
           /\ U # T => Cardinality(U) < Cardinality(T)
<1>1. IsFiniteSet(T) /\ Cardinality(T) \in Nat /\ Cardinality(U) \in Nat
  BY BelowIsFinite
<1>2. Cardinality(U) <= Cardinality(T) /\ (Cardinality(T) = Cardinality(U) => T = U)
  BY <1>1, FS_Subset
<1> QED BY SMTT(20), <1>1, <1>2

-----------------------------------------------------------------------------
(* A page: the first rows of what is behind the cursor                     *)

\* With a row a page holds every row before it.
LEMMA PageIsPrefix ==
    ASSUME NEW S, NEW n \in Nat, S \subseteq 0..n, NEW x \in FirstRows(S), NEW y \in S, y <= x
    PROVE  y \in FirstRows(S)
<1> S \subseteq Nat /\ x \in S
  BY SMTT(20) DEF FirstRows
<1>1. Below(S, y) \in SUBSET Below(S, x) /\ Below(S, x) \in SUBSET S
  <2>1. \A k \in S : k < y => k < x
    BY SMTT(20)
  <2> QED BY <2>1 DEF Below
<1>2. /\ Cardinality(Below(S, y)) <= Cardinality(Below(S, x))
      /\ Cardinality(Below(S, y)) \in Nat /\ Cardinality(Below(S, x)) \in Nat
  BY <1>1, SmallerIsFewer
<1>3. Cardinality(Below(S, x)) < PageSize
  BY DEF FirstRows, Below
<1>4. Cardinality(Below(S, y)) < PageSize
  BY SMTT(20), <1>2, <1>3, DeskAssumption
<1> QED BY <1>4 DEF FirstRows, Below

\* A page that is not full is all there is.
LEMMA ShortPageIsAll ==
    ASSUME NEW S, NEW n \in Nat, S \subseteq 0..n, Cardinality(FirstRows(S)) < PageSize
    PROVE  FirstRows(S) = S
<1>1. FirstRows(S) \in SUBSET S
  BY DEF FirstRows
<1>2. SUFFICES ASSUME S \ FirstRows(S) # {} PROVE FALSE
  BY <1>1
<1> S \subseteq Nat
  BY SMTT(20)
<1>3. S \ FirstRows(S) \in SUBSET Nat
  OBVIOUS
<1>4. PICK x \in S \ FirstRows(S) : \A y \in S \ FirstRows(S) : x <= y
  BY <1>2, <1>3, LeastExists
<1>5. Below(S, x) \in SUBSET FirstRows(S)
  <2>1. \A k \in S : k < x => k \in FirstRows(S)
    BY SMTT(20), <1>4
  <2> QED BY <2>1 DEF Below
<1>6. /\ Cardinality(Below(S, x)) <= Cardinality(FirstRows(S))
      /\ Cardinality(Below(S, x)) \in Nat /\ Cardinality(FirstRows(S)) \in Nat
  BY <1>1, <1>5, SmallerIsFewer
<1>7. Cardinality(Below(S, x)) < PageSize
  BY SMTT(20), <1>6, DeskAssumption
<1> QED BY <1>4, <1>7 DEF FirstRows, Below

\* There is a page as long as there are rows.
LEMMA PageIsNonempty ==
    ASSUME NEW S, NEW n \in Nat, S \subseteq 0..n, S # {}
    PROVE  FirstRows(S) # {}
<1>1. CASE Cardinality(FirstRows(S)) < PageSize
  BY <1>1, ShortPageIsAll
<1>2. Cardinality({}) < PageSize
  BY SMTT(20), FS_EmptySet, DeskAssumption
<1> QED BY <1>1, <1>2

\* Rows with nothing else before them and no more of them than a page has room
\* for are all on the page.
LEMMA FewRowsFit ==
    ASSUME NEW S, NEW n \in Nat, S \subseteq 0..n, NEW P \in SUBSET S,
           \A x \in P : \A y \in S : y < x => y \in P, Cardinality(P) <= PageSize
    PROVE  P \subseteq FirstRows(S)
<1> SUFFICES ASSUME NEW x \in P PROVE x \in FirstRows(S)
  OBVIOUS
<1>1. Below(S, x) \in SUBSET P /\ Below(S, x) # P
  <2>1. x \notin Below(S, x) /\ \A k \in Below(S, x) : k \in P
    BY SMTT(20) DEF Below
  <2> QED BY <2>1
<1>2. /\ Cardinality(Below(S, x)) < Cardinality(P)
      /\ Cardinality(Below(S, x)) \in Nat /\ Cardinality(P) \in Nat
  BY <1>1, SmallerIsFewer
<1>3. Cardinality(Below(S, x)) < PageSize
  BY SMTT(20), <1>2, DeskAssumption
<1> QED BY <1>3 DEF FirstRows, Below

-----------------------------------------------------------------------------
(* The state                                                               *)

Readers == {"none", "first page", "Paginate", "walkFundJourPages"}

Row == [intent : Intents \cup {Other}, exchange : Exchanges, live : BOOLEAN]

DeskTypes ==
    /\ layer \in {"vnext", "released"}
    /\ match \in {"id", "terms"}
    /\ cursors \in {"advance", "repeat", "wrap"}
    /\ market \in [Intents -> {"HK", "US"}]
    /\ rows \in Seq(Row)
    /\ wire \subseteq [intent : Intents, try : Nat, exchange : Exchanges]
    /\ replies \subseteq [intent : Intents, id : Nat]
    /\ login \in BOOLEAN
    /\ desk \in [Intents -> {"idle", "waiting", "ambiguous", "absent", "refused", "placed",
                             "cancelled", "unknown order"}]
    /\ known \in [Intents -> Nat]
    /\ tries \in [Intents -> Nat]
    /\ walk \in [for : Intents \cup {Other}, reader : Readers, cursor : Nat, seen : SUBSET Nat,
                 pages : 0..maxPages, present : SUBSET Nat, done : BOOLEAN]
    /\ excuse \in [Intents -> SUBSET {"late", "no id", "one page", "cursor"}]

\* An id the caller holds or is being told is one of an order of the intent.
IdsNameOrders ==
    /\ \A r \in replies : r.id \in OrdersOf(r.intent)
    /\ \A i \in Intents : known[i] # NoId => known[i] \in OrdersOf(i)

\* While its entrusts are read an intent waits for the outcome, and neither
\* call in use bounds the number of pages.
WalkHasReason ==
    /\ walk = NoWalk \/ walk.reader # "none"
    /\ \A i \in Intents : walk.for = i =>
          /\ desk[i] = "ambiguous" \/ (desk[i] = "placed" /\ known[i] = NoId)
          /\ walk.reader # "walkFundJourPages"

\* What was there at the start lies before all that came later, and up to the
\* cursor the walk has read it.
WalkIsPrefix ==
    /\ walk.seen \subseteq Ids
    /\ walk.present \subseteq Listed(walk)
    /\ \A n \in walk.present : \A k \in Listed(walk) : k < n => k \in walk.present
    /\ ~walk.done /\ cursors # "repeat" => \A n \in walk.present : n <= walk.cursor => n \in walk.seen
    /\ ~walk.done /\ walk.reader = "first page" => walk.cursor = 0

\* Of one intent there is an order, or a request, or neither.
Single(i) ==
    /\ \A n, k \in OrdersOf(i) : n = k
    /\ \A m, l \in RequestsOf(i) : m = l
    /\ OrdersOf(i) = {} \/ RequestsOf(i) = {}

\* There is neither while the caller is free to submit, and once it has had the
\* order cancelled no request is left and no order is live.
OnceFor(i) ==
    excuse[i] = {} =>
        /\ Single(i)
        /\ desk[i] \in {"idle", "absent", "refused"} => OrdersOf(i) = {} /\ RequestsOf(i) = {}
        /\ desk[i] = "cancelled" => RequestsOf(i) = {} /\ \A n \in OrdersOf(i) : ~rows[n].live

OnceEach == \A i \in Intents : OnceFor(i)

DeskInv ==
    /\ DeskTypes /\ IdsNameOrders /\ WalkHasReason /\ WalkIsPrefix /\ WalkIsComplete
    /\ OnceEach

-----------------------------------------------------------------------------
(* The calls                                                               *)

\* A call that is accepted has passed every one of its checks.
LEMMA AcceptedPassesAll ==
    ASSUME NEW path, NEW checks, NEW body, DOMAIN checks \subseteq Nat,
           \A j \in DOMAIN checks : checks[j][1] # NoRefusal, Accepted(Call(path, checks, body))
    PROVE  \A j \in DOMAIN checks : checks[j][2]
<1> DEFINE failed == {j \in DOMAIN checks : ~checks[j][2]}
<1>1. SUFFICES ASSUME failed # {} PROVE FALSE
  OBVIOUS
<1>2. failed \in SUBSET Nat
  OBVIOUS
<1>3. PICK x \in failed : \A y \in failed : x <= y
  BY <1>1, <1>2, LeastExists
<1>4. (CHOOSE j \in failed : \A k \in failed : j <= k) \in failed
  BY <1>3
<1>5. Refusal(checks) = checks[CHOOSE j \in failed : \A k \in failed : j <= k][1]
  BY <1>1 DEF Refusal
<1> HIDE DEF failed
<1>6. Refusal(checks) # NoRefusal
  <2>1. failed \subseteq DOMAIN checks
    BY DEF failed
  <2> QED BY <1>4, <1>5, <2>1
<1> QED BY <1>6 DEF Accepted, Call

LEMMA TwoSteps ==
    ASSUME NEW a, NEW b
    PROVE  LET s == <<a>> \o <<b>> IN DOMAIN s = 1..2 /\ s[1] = a /\ s[2] = b
  BY SMTT(20)

LEMMA ThreeSteps ==
    ASSUME NEW a, NEW b, NEW c
    PROVE  LET s == <<a>> \o <<b, c>> IN DOMAIN s = 1..3 /\ s[1] = a /\ s[2] = b /\ s[3] = c
  BY SMTT(20)

LEMMA CheckParts ==
    ASSUME NEW name, NEW passes \in BOOLEAN
    PROVE  <<name, passes>>[1] = name /\ <<name, passes>>[2] = passes
  OBVIOUS

LEMMA TwoChecks ==
    ASSUME NEW path, NEW body, NEW n1, NEW n2, n1 # NoRefusal, n2 # NoRefusal,
           NEW b1 \in BOOLEAN, NEW b2 \in BOOLEAN,
           Accepted(Call(path, << <<n1, b1>> >> \o << <<n2, b2>> >>, body))
    PROVE  b2
<1> DEFINE x == <<n1, b1>>
           y == <<n2, b2>>
           s == <<x>> \o <<y>>
<1>1. x[1] = n1 /\ y[1] = n2 /\ y[2] = b2
  BY CheckParts
<1>2. Accepted(Call(path, s, body))
  OBVIOUS
<1> HIDE DEF x, y
<1>3. DOMAIN s = 1..2 /\ s[1] = x /\ s[2] = y
  BY TwoSteps
<1> HIDE DEF s
<1>4. DOMAIN s \subseteq Nat /\ \A j \in DOMAIN s : s[j][1] # NoRefusal
  BY SMTT(20), <1>1, <1>3
<1>5. \A j \in DOMAIN s : s[j][2]
  BY <1>2, <1>4, AcceptedPassesAll
<1>6. 2 \in DOMAIN s
  BY SMTT(20), <1>3
<1>7. s[2][2]
  BY <1>5, <1>6
<1> QED BY <1>1, <1>3, <1>7

LEMMA ThreeChecks ==
    ASSUME NEW path, NEW body, NEW n1, NEW n2, NEW n3,
           n1 # NoRefusal, n2 # NoRefusal, n3 # NoRefusal,
           NEW b1 \in BOOLEAN, NEW b2 \in BOOLEAN, NEW b3 \in BOOLEAN,
           Accepted(Call(path, << <<n1, b1>> >> \o << <<n2, b2>>, <<n3, b3>> >>, body))
    PROVE  b3
<1> DEFINE x == <<n1, b1>>
           y == <<n2, b2>>
           z == <<n3, b3>>
           s == <<x>> \o <<y, z>>
<1>1. x[1] = n1 /\ y[1] = n2 /\ z[1] = n3 /\ z[2] = b3
  BY CheckParts
<1>2. Accepted(Call(path, s, body))
  OBVIOUS
<1> HIDE DEF x, y, z
<1>3. DOMAIN s = 1..3 /\ s[1] = x /\ s[2] = y /\ s[3] = z
  BY SMTT(20), ThreeSteps
<1> HIDE DEF s
<1>4. DOMAIN s \subseteq Nat /\ \A j \in DOMAIN s : s[j][1] # NoRefusal
  BY SMTT(20), <1>1, <1>3
<1>5. \A j \in DOMAIN s : s[j][2]
  BY <1>2, <1>4, AcceptedPassesAll
<1>6. 3 \in DOMAIN s
  BY SMTT(20), <1>3
<1>7. s[3][2]
  BY <1>5, <1>6
<1> QED BY <1>1, <1>3, <1>7

\* Both layers refuse a cancel that names no order.
LEMMA WithdrawNamesAnOrder ==
    ASSUME DeskTypes, NEW i \in Intents, Accepted(Withdraw(i))
    PROVE  known[i] # NoId
<1> DEFINE r == AmendOf(i)
           code == ExchangeOf(r.market)
<1>1. "accountID" # NoRefusal /\ "entrustId" # NoRefusal /\ "stockCode" # NoRefusal /\ "exchangeType" # NoRefusal
  BY DEF NoRefusal
<1>2. /\ (r.account # "") \in BOOLEAN /\ (r.entrustId # "") \in BOOLEAN /\ (r.stockCode # "") \in BOOLEAN
      /\ (code # "" /\ trade_validExchange(code)) \in BOOLEAN
  OBVIOUS
<1>3. CASE layer = "vnext"
  <2>1. Withdraw(i) = Call("TradeCancelEntrust",
             << <<"accountID", r.account # "">> >> \o << <<"entrustId", r.entrustId # "">> >>,
             cancelEntrustWireRequest(r))
    BY <1>3 DEF Withdraw, CancelEntrust, cashAccountCheck
  <2>2. Accepted(Call("TradeCancelEntrust",
             << <<"accountID", r.account # "">> >> \o << <<"entrustId", r.entrustId # "">> >>,
             cancelEntrustWireRequest(r)))
    BY <2>1
  <2> HIDE DEF r
  <2>3. r.entrustId # ""
    BY <1>1, <1>2, <2>2, TwoChecks
  <2> QED BY <2>3 DEF r, AmendOf
<1>4. CASE layer = "released"
  <2>1. Withdraw(i) = Call("TradeCancelEntrust",
             << <<"exchangeType", code # "" /\ trade_validExchange(code)>> >>
             \o << <<"stockCode", r.stockCode # "">>, <<"entrustId", r.entrustId # "">> >>,
             trade_CancelEntrustRequest(r))
    BY <1>4 DEF Withdraw, trade_CancelEntrust, trade_CancelEntrustRequest_validate, trade_validateExchange
  <2>2. Accepted(Call("TradeCancelEntrust",
             << <<"exchangeType", code # "" /\ trade_validExchange(code)>> >>
             \o << <<"stockCode", r.stockCode # "">>, <<"entrustId", r.entrustId # "">> >>,
             trade_CancelEntrustRequest(r)))
    BY <2>1
  <2> HIDE DEF r, code
  <2>3. r.entrustId # ""
    BY <1>1, <1>2, <2>2, ThreeChecks
  <2> QED BY <2>3 DEF r, AmendOf
<1> QED BY <1>3, <1>4 DEF DeskTypes

\* Both layers send an order to the book of its market.
LEMMA OrderGoesToItsBook ==
    ASSUME DeskTypes, NEW i \in Intents
    PROVE  Place(i).body.exchangeType = ExchangeOf(market[i]) /\ ExchangeOf(market[i]) \in Exchanges
<1>1. market[i] \in {"HK", "US"} /\ OrderOf(i).market = market[i]
  BY DEF DeskTypes, OrderOf
<1>2. ExchangeOf(market[i]) \in Exchanges
  BY <1>1 DEF ExchangeOf, Exchanges
<1>3. entrustWireRequest(OrderOf(i)).exchangeType = exchangeTypeForMarket(market[i])
  BY <1>1 DEF entrustWireRequest, OmitEmpty
<1>4. trade_EntrustRequest(OrderOf(i)).exchangeType = ExchangeOf(market[i])
  BY <1>1 DEF trade_EntrustRequest, OmitEmpty, OmitAbsent
<1>5. exchangeTypeForMarket(market[i]) = ExchangeOf(market[i])
  BY <1>1 DEF exchangeTypeForMarket, ExchangeOf, MarketHK, MarketUS
<1>6. /\ Entrust(OrderOf(i)).body = entrustWireRequest(OrderOf(i))
      /\ trade_Entrust(OrderOf(i)).body = trade_EntrustRequest(OrderOf(i))
  BY DEF Entrust, trade_Entrust, Call
<1> QED BY <1>2, <1>3, <1>4, <1>5, <1>6 DEF Place

-----------------------------------------------------------------------------
(* What a step does to the Gateway's rows, and to the walk                 *)

LEMMA IdsAreBounded ==
    ASSUME DeskTypes
    PROVE  /\ Len(rows) \in Nat /\ Ids = 1..Len(rows) /\ Ids \subseteq 0..Len(rows)
           /\ \A n \in Ids : rows[n] \in Row
<1>1. rows \in Seq(Row)
  BY DEF DeskTypes
<1>2. Len(rows) \in Nat /\ DOMAIN rows = 1..Len(rows) /\ \A n \in 1..Len(rows) : rows[n] \in Row
  BY SMTT(20), <1>1
<1> QED BY SMTT(20), <1>2 DEF Ids

LEMMA ListedAreIds ==
    ASSUME NEW w
    PROVE  Listed(w) \subseteq Ids
  BY DEF Listed

\* A page consists of listed rows, and its cursor is the greatest of them.
LEMMA PageShape ==
    ASSUME DeskTypes, NEW w
    PROVE  /\ PageAt(w) \subseteq Listed(w) /\ NextCursor(PageAt(w)) \in Nat
           /\ PageAt(w) # {} => /\ NextCursor(PageAt(w)) \in PageAt(w)
                                /\ \A n \in PageAt(w) : n <= NextCursor(PageAt(w))
           /\ PageAt(w) = {} => NextCursor(PageAt(w)) = 0
<1>1. PageAt(w) \subseteq Listed(w)
  BY DEF PageAt, FirstRows
<1>2. PageAt(w) \subseteq 0..Len(rows)
  BY <1>1, IdsAreBounded, ListedAreIds
<1>3. PageAt(w) = {} => NextCursor(PageAt(w)) = 0
  BY DEF NextCursor
<1>4. CASE PageAt(w) # {}
  <2>1. NextCursor(PageAt(w)) = Max(PageAt(w))
    BY <1>4 DEF NextCursor
  <2>2. Max(PageAt(w)) \in PageAt(w) /\ \A y \in PageAt(w) : y <= Max(PageAt(w))
    BY <1>2, <1>4, GreatestExists, IdsAreBounded
  <2>3. Max(PageAt(w)) \in Nat
    BY SMTT(20), <1>2, <2>2
  <2> QED BY <1>1, <1>4, <2>1, <2>2, <2>3
<1> QED BY SMTT(20), <1>1, <1>3, <1>4

LEMMA LesserOf ==
    ASSUME NEW a \in Nat, NEW b \in Nat
    PROVE  Min({a, b}) = IF a <= b THEN a ELSE b
<1>1. \E x \in {a, b} : \A y \in {a, b} : x <= y
  BY SMTT(20)
<1>2. Min({a, b}) \in {a, b} /\ \A y \in {a, b} : Min({a, b}) <= y
  BY <1>1 DEF Min
<1> QED BY SMTT(20), <1>2

\* The order a caller takes for its own when it has found some.
LEMMA FoundIsMine ==
    ASSUME DeskTypes, WalkIsPrefix, NEW i \in Intents, Mine(i) # {}
    PROVE  Max(Mine(i)) \in Mine(i) /\ Max(Mine(i)) \in OrdersOf(i) /\ Max(Mine(i)) \in Nat
<1>1. Mine(i) \subseteq OrdersOf(i) /\ Mine(i) \subseteq Ids
  BY DEF Mine, OrdersOf, WalkIsPrefix
<1>2. Max(Mine(i)) \in Mine(i)
  BY <1>1, GreatestExists, IdsAreBounded
<1> QED BY SMTT(20), <1>1, <1>2, IdsAreBounded

\* Rows are added behind the others and keep their intent and their book.
RowsGrow ==
    /\ Ids \subseteq Ids' /\ Ids' \subseteq Nat
    /\ \A n \in Ids : rows'[n].intent = rows[n].intent /\ rows'[n].exchange = rows[n].exchange
    /\ \A n \in Ids' \ Ids : \A k \in Ids : k < n

LEMMA AppendGrows ==
    ASSUME DeskTypes, NEW o \in Row, rows' = Append(rows, o)
    PROVE  /\ RowsGrow /\ Ids' = Ids \cup {Len(rows) + 1} /\ Len(rows) + 1 \notin Ids
           /\ \A n \in Ids : rows'[n] = rows[n]
           /\ rows'[Len(rows) + 1] = o
<1>0. rows \in Seq(Row)
  BY DEF DeskTypes
<1>1. /\ Len(rows') = Len(rows) + 1 /\ DOMAIN rows' = 1..(Len(rows) + 1)
      /\ \A n \in 1..Len(rows) : rows'[n] = rows[n]
      /\ rows'[Len(rows) + 1] = o
  BY SMTT(20), <1>0
<1>2. Ids' = 1..(Len(rows) + 1)
  BY <1>1 DEF Ids
<1> QED BY SMTT(20), <1>1, <1>2, IdsAreBounded DEF RowsGrow

LEMMA CancelGrows ==
    ASSUME DeskTypes, NEW k \in Ids, rows' = [rows EXCEPT ![k].live = FALSE]
    PROVE  /\ RowsGrow /\ Ids' = Ids
           /\ \A n \in Ids : n # k => rows'[n] = rows[n]
           /\ rows'[k] = [rows[k] EXCEPT !.live = FALSE]
<1>1. Ids' = Ids
  BY DEF Ids
<1>2. \A n \in Ids : n # k => rows'[n] = rows[n]
  BY DEF Ids
<1>3. rows'[k] = [rows[k] EXCEPT !.live = FALSE]
  BY DEF Ids
<1>4. rows'[k].intent = rows[k].intent /\ rows'[k].exchange = rows[k].exchange
  BY SMTT(20), <1>3, IdsAreBounded DEF Row
<1> QED BY SMTT(20), <1>1, <1>2, <1>3, <1>4, IdsAreBounded DEF RowsGrow

-----------------------------------------------------------------------------
(* Types                                                                   *)

WalkStates ==
    [for : Intents \cup {Other}, reader : Readers, cursor : Nat, seen : SUBSET Nat,
     pages : 0..maxPages, present : SUBSET Nat, done : BOOLEAN]

LEMMA NoWalkIsAWalk == NoWalk \in WalkStates
  BY SMTT(20), DeskAssumption DEF NoWalk, WalkStates, Readers

LEMMA WalkUpdates ==
    ASSUME NEW w \in WalkStates, NEW seen \in SUBSET Nat, NEW pages \in 0..maxPages,
           NEW cursor \in Nat, NEW done \in BOOLEAN
    PROVE  [w EXCEPT !.seen = seen, !.pages = pages, !.cursor = cursor, !.done = done] \in WalkStates
  BY DEF WalkStates

LEMMA StartedWalk ==
    ASSUME DeskTypes, NEW for \in Intents \cup {Other}, NEW reader \in Readers, Start(for, reader)
    PROVE  /\ walk = NoWalk /\ walk' \in WalkStates
           /\ walk'.for = for /\ walk'.reader = reader /\ walk'.cursor = 0 /\ walk'.seen = {}
           /\ walk'.present = Listed(walk') /\ walk'.done = FALSE
<1>1. Listed([NoWalk EXCEPT !.for = for]) \in SUBSET Nat
  BY SMTT(20), ListedAreIds, IdsAreBounded
<1> DEFINE L == Listed([NoWalk EXCEPT !.for = for])
<1>0. walk' = [NoWalk EXCEPT !.for = for, !.reader = reader, !.present = L]
  BY DEF Start
<1>2. /\ walk' \in WalkStates /\ walk'.for = for /\ walk'.reader = reader /\ walk'.cursor = 0
      /\ walk'.seen = {} /\ walk'.done = FALSE /\ walk'.present = L
  <2> HIDE DEF L
  <2>1. walk' = [for |-> for, reader |-> reader, cursor |-> 0, seen |-> {}, pages |-> 0,
                 present |-> L, done |-> FALSE]
    BY <1>0 DEF NoWalk
  <2>2. L \in SUBSET Nat /\ 0 \in 0..maxPages
    BY SMTT(20), <1>1, DeskAssumption DEF L
  <2>3. walk' \in WalkStates
    BY <2>1, <2>2 DEF WalkStates
  <2> QED BY <2>1, <2>3
<1>3. [NoWalk EXCEPT !.for = for].for = for
  BY DEF NoWalk
<1>4. Listed([NoWalk EXCEPT !.for = for]) = Listed(walk')
  BY <1>2, <1>3 DEF Listed
<1> QED BY <1>2, <1>4 DEF Start

LEMMA FetchedWalk ==
    ASSUME DeskTypes, WalkHasReason, Fetch
    PROVE  LET page == PageAt(walk)
               next == NextCursor(PageAt(walk))
           IN  /\ walk' \in WalkStates
               /\ walk'.for = walk.for /\ walk'.reader = walk.reader /\ walk'.present = walk.present
               /\ walk'.seen = walk.seen \cup page
               /\ walk'.done = Stops(walk, page, next)
               /\ walk'.cursor = IF Stops(walk, page, next) THEN walk.cursor ELSE next
               /\ walk'.pages = IF walk.pages + 1 <= maxPages THEN walk.pages + 1 ELSE maxPages
               /\ ~walk.done /\ walk.reader \in {"first page", "Paginate", "walkFundJourPages"}
<1> DEFINE page == PageAt(walk)
           next == NextCursor(page)
<1>1. page \in SUBSET Nat /\ next \in Nat
  BY SMTT(20), PageShape, ListedAreIds, IdsAreBounded
<1>2. walk \in WalkStates
  BY DEF DeskTypes, WalkStates
<1>3. walk.pages \in 0..maxPages /\ walk.pages + 1 \in Nat /\ maxPages \in Nat
  BY SMTT(20), <1>2, DeskAssumption DEF WalkStates
<1>4. Min({walk.pages + 1, maxPages}) = IF walk.pages + 1 <= maxPages THEN walk.pages + 1 ELSE maxPages
  BY <1>3, LesserOf
<1>5. walk.reader \in {"first page", "Paginate", "walkFundJourPages"} /\ ~walk.done
  BY <1>2 DEF WalkHasReason, Fetch, WalkStates, Readers
<1>6. Stops(walk, page, next) \in BOOLEAN
  BY <1>5 DEF Stops, Paginate, walkFundJourPages
<1>7. walk' = [walk EXCEPT !.seen = walk.seen \cup page, !.pages = Min({walk.pages + 1, maxPages}),
               !.cursor = IF Stops(walk, page, next) THEN walk.cursor ELSE next,
               !.done = Stops(walk, page, next)]
  BY DEF Fetch
<1> HIDE DEF page, next
<1>8. /\ walk'.for = walk.for /\ walk'.reader = walk.reader /\ walk'.present = walk.present
      /\ walk'.seen = walk.seen \cup page
      /\ walk'.done = Stops(walk, page, next)
      /\ walk'.cursor = IF Stops(walk, page, next) THEN walk.cursor ELSE next
      /\ walk'.pages = IF walk.pages + 1 <= maxPages THEN walk.pages + 1 ELSE maxPages
  BY <1>2, <1>4, <1>7 DEF WalkStates
<1>9. walk' \in WalkStates
  <2>1. walk.seen \cup page \in SUBSET Nat /\ walk.cursor \in Nat
    BY <1>1, <1>2 DEF WalkStates
  <2>2. Min({walk.pages + 1, maxPages}) \in 0..maxPages
    BY SMTT(20), <1>3, <1>4
  <2>3. (IF Stops(walk, page, next) THEN walk.cursor ELSE next) \in Nat
    BY <1>1, <2>1
  <2> QED BY <1>2, <1>6, <1>7, <2>1, <2>2, <2>3, WalkUpdates
<1> QED BY <1>5, <1>8, <1>9 DEF page, next

LEMMA DeskTypesNext ==
    ASSUME DeskTypes, IdsNameOrders, WalkHasReason, WalkIsPrefix, [Next]_vars
    PROVE  DeskTypes'
<1> USE DEF WalkStates
<1>1. ASSUME NEW i \in Intents, Submit(i) PROVE DeskTypes'
  <2>0. Place(i).body.exchangeType \in Exchanges
    BY OrderGoesToItsBook
  <2>1. [intent |-> i, try |-> tries[i] + 1, exchange |-> Place(i).body.exchangeType]
          \in [intent : Intents, try : Nat, exchange : Exchanges]
    <3>1. tries \in [Intents -> Nat]
      BY DEF DeskTypes
    <3>2. tries[i] + 1 \in Nat
      BY SMTT(20), <3>1
    <3> QED BY <2>0, <3>2
  <2> QED BY <1>1, <2>1 DEF Submit, fixed, DeskTypes
<1>2. ASSUME NEW i \in Intents, NoAnswer(i) PROVE DeskTypes'
  BY <1>2 DEF NoAnswer, fixed, DeskTypes
<1>3. ASSUME NEW i \in Intents, Cancel(i) PROVE DeskTypes'
  <2>1. known[i] \in Ids
    BY <1>3, WithdrawNamesAnOrder DEF Cancel, IdsNameOrders, OrdersOf
  <2>2. [rows EXCEPT ![known[i]].live = FALSE] \in Seq(Row)
    <3>1. rows \in Seq(Row) /\ [rows[known[i]] EXCEPT !.live = FALSE] \in Row
      <4>1. rows \in Seq(Row)
        BY DEF DeskTypes
      <4>2. rows[known[i]] \in Row
        BY SMTT(20), <2>1, <4>1, IdsAreBounded
      <4>3. \A r \in Row : [r EXCEPT !.live = FALSE] \in Row
        BY DEF Row
      <4> QED BY <4>1, <4>2, <4>3
    <3>2. [rows EXCEPT ![known[i]] = [rows[known[i]] EXCEPT !.live = FALSE]] \in Seq(Row)
      BY SMTT(20), <2>1, <3>1, IdsAreBounded
    <3> QED BY <3>2
  <2>3. rows' \in Seq(Row)
    BY <1>3, <2>2 DEF Cancel, DeskTypes
  <2> QED BY <1>3, <2>3 DEF Cancel, fixed, DeskTypes
<1>4. ASSUME NEW i \in Intents, ReadEntrusts(i) PROVE DeskTypes'
  <2>1. (IF layer = "vnext" THEN "first page" ELSE "Paginate") \in Readers
    BY DEF Readers
  <2>2. walk' \in WalkStates
    BY <1>4, <2>1, StartedWalk DEF ReadEntrusts
  <2> QED BY <1>4, <2>2 DEF ReadEntrusts, Start, fixed, DeskTypes
<1>5. ASSUME NEW i \in Intents, Conclude(i) PROVE DeskTypes'
  <2>1. walk' \in WalkStates
    BY <1>5, NoWalkIsAWalk DEF Conclude
  <2>2. CASE Mine(i) # {}
    <3>1. Max(Mine(i)) \in Nat
      BY <2>2, FoundIsMine
    <3>2. /\ known' = [known EXCEPT ![i] = Max(Mine(i))] /\ desk' = [desk EXCEPT ![i] = "placed"]
          /\ UNCHANGED <<layer, match, cursors, market, rows, wire, replies, login, tries, excuse>>
      BY <1>5, <2>2 DEF Conclude, fixed
    <3> QED BY <2>1, <3>1, <3>2 DEF DeskTypes
  <2>3. CASE Mine(i) = {}
    <3>1. Excuses(i) \subseteq {"late", "no id", "one page", "cursor"}
      BY DEF Excuses
    <3>2. /\ desk' = [desk EXCEPT ![i] = IF desk[i] = "ambiguous" THEN "absent" ELSE desk[i]]
          /\ excuse' = [excuse EXCEPT ![i] =
                 IF desk[i] = "ambiguous" THEN excuse[i] \union Excuses(i) ELSE excuse[i]]
          /\ UNCHANGED <<layer, match, cursors, market, rows, wire, replies, login, tries, known>>
      BY <1>5, <2>3 DEF Conclude, fixed
    <3>3. excuse' \in [Intents -> SUBSET {"late", "no id", "one page", "cursor"}]
      BY <3>1, <3>2 DEF DeskTypes
    <3> QED BY <2>1, <3>2, <3>3 DEF DeskTypes
  <2> QED BY <2>2, <2>3
<1>6. ASSUME NEW i \in Intents, NEW r \in replies, Answered(i, r) PROVE DeskTypes'
  BY <1>6 DEF Answered, entrustWireResponse, trade_CommonStringResponse, NoId, fixed, DeskTypes
<1>7. ASSUME NEW m \in wire, Book(m) PROVE DeskTypes'
  <2>1. m \in [intent : Intents, try : Nat, exchange : Exchanges]
    BY DEF DeskTypes
  <2>2. [intent |-> m.intent, exchange |-> m.exchange, live |-> TRUE] \in Row
    BY <2>1 DEF Row
  <2>3. rows' \in Seq(Row) /\ Len(rows) + 1 \in Nat
    <3>1. rows \in Seq(Row)
      BY DEF DeskTypes
    <3>2. rows' = Append(rows, [intent |-> m.intent, exchange |-> m.exchange, live |-> TRUE])
      BY <1>7 DEF Book
    <3> QED BY SMTT(20), <2>2, <3>1, <3>2
  <2>4. [intent |-> m.intent, id |-> Len(rows) + 1] \in [intent : Intents, id : Nat]
    BY <2>1, <2>3
  <2> QED BY <1>7, <2>3, <2>4 DEF Book, fixed, DeskTypes
<1>8. ASSUME NEW m \in wire, call_Refused(m) PROVE DeskTypes'
  <2>1. login' \in BOOLEAN
    BY <1>8 DEF call_Refused
  <2>2. m.intent \in Intents
    BY DEF DeskTypes
  <2>3. desk' \in [Intents -> {"idle", "waiting", "ambiguous", "absent", "refused", "placed",
                               "cancelled", "unknown order"}]
    BY <1>8, <2>2 DEF call_Refused, DeskTypes
  <2> QED BY <1>8, <2>1, <2>3 DEF call_Refused, fixed, DeskTypes
<1>9. ASSUME NEW m \in wire, Lose(m) PROVE DeskTypes'
  BY <1>9 DEF Lose, fixed, DeskTypes
<1>10. CASE SessionChanges
  BY <1>10 DEF SessionChanges, fixed, DeskTypes
<1>11. CASE OtherOrder
  <2>1. PICK i \in Intents :
          rows' = Append(rows, [intent |-> Other, exchange |-> ExchangeOf(market[i]), live |-> TRUE])
    BY <1>11 DEF OtherOrder
  <2>2. [intent |-> Other, exchange |-> ExchangeOf(market[i]), live |-> TRUE] \in Row
    BY OrderGoesToItsBook DEF Row
  <2>3. rows' \in Seq(Row)
    <3>1. rows \in Seq(Row)
      BY DEF DeskTypes
    <3> QED BY SMTT(20), <2>1, <2>2, <3>1
  <2> QED BY <1>11, <2>3 DEF OtherOrder, fixed, DeskTypes
<1>12. CASE ReadJournal
  <2>1. (IF layer = "vnext" THEN "walkFundJourPages" ELSE "Paginate") \in Readers
    BY DEF Readers
  <2>2. walk' \in WalkStates
    BY <1>12, <2>1, StartedWalk DEF ReadJournal
  <2> QED BY <1>12, <2>2 DEF ReadJournal, Start, fixed, DeskTypes
<1>13. CASE Fetch
  <2>1. walk' \in WalkStates
    BY <1>13, FetchedWalk
  <2> QED BY <1>13, <2>1 DEF Fetch, fixed, DeskTypes
<1>14. CASE FetchFails \/ PutAway
  <2>1. walk' \in WalkStates
    BY <1>14, NoWalkIsAWalk DEF FetchFails, PutAway
  <2> QED BY <1>14, <2>1 DEF FetchFails, PutAway, fixed, DeskTypes
<1>15. CASE UNCHANGED vars
  BY <1>15 DEF vars, DeskTypes
<1> QED BY <1>1, <1>2, <1>3, <1>4, <1>5, <1>6, <1>7, <1>8, <1>9, <1>10, <1>11, <1>12, <1>13,
           <1>14, <1>15 DEF Next

-----------------------------------------------------------------------------
(* The walk                                                                *)

LEMMA RowsStep ==
    ASSUME DeskTypes, IdsNameOrders, [Next]_vars
    PROVE  RowsGrow /\ UNCHANGED fixed
<1>1. CASE UNCHANGED rows
  <2>1. RowsGrow
    <3>1. Ids' = Ids
      BY <1>1 DEF Ids
    <3> QED BY SMTT(20), <1>1, <3>1, IdsAreBounded DEF RowsGrow
  <2> QED BY <2>1
        DEF Next, vars, fixed, Submit, NoAnswer, Cancel, ReadEntrusts, Conclude, Answered, Book,
            call_Refused, Lose, SessionChanges, OtherOrder, ReadJournal, Start, Fetch, FetchFails, PutAway
<1>2. ASSUME NEW i \in Intents, Cancel(i) PROVE RowsGrow /\ UNCHANGED fixed
  <2>1. known[i] \in Ids
    BY <1>2, WithdrawNamesAnOrder DEF Cancel, IdsNameOrders, OrdersOf
  <2>2. rows' = [rows EXCEPT ![known[i]].live = FALSE] \/ UNCHANGED rows
    BY <1>2 DEF Cancel
  <2>3. CASE rows' = [rows EXCEPT ![known[i]].live = FALSE]
    BY <1>2, <2>1, <2>3, CancelGrows DEF Cancel
  <2> QED BY <1>1, <2>2, <2>3
<1>3. ASSUME NEW m \in wire, Book(m) PROVE RowsGrow /\ UNCHANGED fixed
  <2>1. [intent |-> m.intent, exchange |-> m.exchange, live |-> TRUE] \in Row
    BY DEF DeskTypes, Row
  <2> QED BY <1>3, <2>1, AppendGrows DEF Book
<1>4. CASE OtherOrder
  <2>1. PICK i \in Intents :
          rows' = Append(rows, [intent |-> Other, exchange |-> ExchangeOf(market[i]), live |-> TRUE])
    BY <1>4 DEF OtherOrder
  <2>2. [intent |-> Other, exchange |-> ExchangeOf(market[i]), live |-> TRUE] \in Row
    BY OrderGoesToItsBook DEF Row
  <2> QED BY <1>4, <2>1, <2>2, AppendGrows DEF OtherOrder
<1> QED BY <1>1, <1>2, <1>3, <1>4
        DEF Next, vars, Submit, NoAnswer, ReadEntrusts, Conclude, Answered, call_Refused, Lose,
            SessionChanges, ReadJournal, Start, Fetch, FetchFails, PutAway

LEMMA WalkStep ==
    ASSUME [Next]_vars
    PROVE  \/ walk' = walk
           \/ walk' = NoWalk
           \/ Fetch
           \/ \E i \in Intents : ReadEntrusts(i)
           \/ ReadJournal
  BY DEF Next, vars, Submit, NoAnswer, Cancel, Conclude, Answered, Book, call_Refused, Lose,
         SessionChanges, OtherOrder, FetchFails, PutAway

WalkInv == WalkIsPrefix /\ WalkIsComplete

\* Rows that are added change nothing of what a walk has to read.
LEMMA WalkKeeps ==
    ASSUME DeskTypes, WalkInv, RowsGrow, UNCHANGED <<fixed, walk>>
    PROVE  WalkInv'
<1> USE DEF fixed
<1>1. Listed(walk) \subseteq Listed(walk)'
  BY DEF RowsGrow, Listed
<1>2. \A k \in Listed(walk)' : k \in Listed(walk) \/ k \in Ids' \ Ids
  BY DEF RowsGrow, Listed
<1>3. walk.present \subseteq Ids /\ walk.seen \subseteq Ids
  BY ListedAreIds DEF WalkInv, WalkIsPrefix
<1>4. \A n \in walk.present : \A k \in Listed(walk)' : k < n => k \in walk.present
  <2> TAKE n \in walk.present
  <2> SUFFICES ASSUME NEW k \in Listed(walk)', k < n PROVE k \in walk.present
    OBVIOUS
  <2>1. CASE k \in Listed(walk)
    BY <2>1 DEF WalkInv, WalkIsPrefix
  <2>2. CASE k \in Ids' \ Ids
    <3>1. n < k /\ n \in Nat /\ k \in Nat
      <4>1. n \in Ids /\ n < k
        BY <1>3, <2>2 DEF RowsGrow
      <4>2. n \in Nat /\ k \in Nat
        BY <2>2, <4>1, IdsAreBounded DEF RowsGrow
      <4> QED BY <4>1, <4>2
    <3> QED BY SMTT(20), <3>1
  <2> QED BY <1>2, <2>1, <2>2
<1>5. WalkIsPrefix'
  BY <1>1, <1>3, <1>4 DEF WalkInv, WalkIsPrefix, RowsGrow
<1>6. WalkIsComplete'
  BY DEF WalkInv, WalkIsComplete
<1> QED BY <1>5, <1>6 DEF WalkInv

\* One page: either it brings the walk on, or the walk has everything.
LEMMA WalkFetches ==
    ASSUME DeskTypes, WalkInv, WalkHasReason, Fetch
    PROVE  WalkInv'
<1> DEFINE L == Listed(walk)
           behind == {n \in L : n > walk.cursor}
           page == PageAt(walk)
           next == NextCursor(page)
           N == Len(rows)
<1> USE DEF WalkInv
<1>1. /\ walk'.for = walk.for /\ walk'.reader = walk.reader /\ walk'.present = walk.present
      /\ walk'.seen = walk.seen \cup page
      /\ walk'.done = Stops(walk, page, next)
      /\ walk'.cursor = IF Stops(walk, page, next) THEN walk.cursor ELSE next
      /\ walk'.pages = IF walk.pages + 1 <= maxPages THEN walk.pages + 1 ELSE maxPages
      /\ ~walk.done /\ walk.reader \in {"first page", "Paginate", "walkFundJourPages"}
  BY FetchedWalk
<1>2. UNCHANGED <<rows, market, cursors>> /\ Ids' = Ids
  BY DEF Fetch, fixed, Ids
<1>3. Listed(walk)' = L
  BY <1>1, <1>2 DEF Listed
<1>4. /\ N \in Nat /\ L \subseteq 1..N /\ page \subseteq L /\ next \in Nat /\ walk.cursor \in Nat
      /\ page # {} => next \in page /\ \A n \in page : n <= next
  BY ListedAreIds, IdsAreBounded, PageShape DEF DeskTypes
<1>5. walk.present \subseteq L /\ \A n \in walk.present : \A k \in L : k < n => k \in walk.present
  BY DEF WalkIsPrefix
<1>6. cursors # "repeat" => \A n \in walk.present : n <= walk.cursor => n \in walk.seen
  BY <1>1 DEF WalkIsPrefix
<1>7. behind \subseteq 0..N /\ L \subseteq 0..N /\ behind \subseteq L
  BY SMTT(20), <1>4
<1>8. cursors # "repeat" /\ behind # {} => page = FirstRows(behind) /\ page # {}
  <2>1. behind # {} => FirstRows(behind) # {}
    BY <1>4, <1>7, PageIsNonempty
  <2> QED BY <2>1 DEF PageAt, DeskTypes
<1>9. CASE cursors # "repeat" /\ behind = {}
  <2>1. walk.present \subseteq walk.seen
    BY SMTT(20), <1>4, <1>5, <1>6, <1>9
  <2> HIDE DEF L, behind, page, next
  <2>2. WalkIsPrefix'
    <3>1. walk'.seen \subseteq Ids'
      BY <1>1, <1>2, <1>4, ListedAreIds DEF WalkIsPrefix, L
    <3>2. walk'.reader = "first page" => walk'.done
      BY <1>1 DEF Stops
    <3> QED BY <1>1, <1>2, <1>3, <1>5, <2>1, <3>1, <3>2 DEF WalkIsPrefix
  <2> QED BY <1>1, <2>1, <2>2 DEF WalkIsComplete
<1>10. CASE cursors # "repeat" /\ behind # {}
  <2>1. next \in page /\ next > walk.cursor /\ next # walk.cursor
    <3>1. next \in page /\ page \subseteq behind
      BY <1>4, <1>8, <1>10 DEF FirstRows
    <3>2. next \in behind
      BY <3>1
    <3>3. next > walk.cursor
      BY <3>2
    <3> HIDE DEF next, page
    <3> QED BY SMTT(20), <1>4, <3>1, <3>3
  <2>2. ASSUME NEW n \in walk.present, n <= next PROVE n \in walk'.seen
    <3>1. CASE n <= walk.cursor
      BY <1>1, <1>6, <1>10, <3>1
    <3>2. CASE n > walk.cursor
      <4>1. n \in behind
        BY <1>5, <3>2
      <4> HIDE DEF behind, next
      <4>2. n \in FirstRows(behind)
        BY <1>4, <1>7, <1>8, <1>10, <2>1, <2>2, <4>1, PageIsPrefix
      <4> QED BY <1>1, <1>8, <1>10, <4>2
    <3> QED BY SMTT(20), <1>4, <1>5, <3>1, <3>2
  <2>3. CASE walk.reader = "first page"
    <3>1. walk.cursor = 0 /\ walk'.done
      BY <1>1, <2>3 DEF WalkIsPrefix, Stops
    <3>2. behind = L
      BY SMTT(20), <1>4, <3>1
    <3>3. Cardinality(walk.present) \in Nat
      BY <1>4, <1>5, <1>7, BelowIsFinite
    <3> HIDE DEF L
    <3>4. Cardinality(walk.present) > PageSize \/ walk.present \subseteq FirstRows(L)
      <4>1. CASE Cardinality(walk.present) <= PageSize
        <5>1. walk.present \in SUBSET L /\ L \subseteq 0..N
          BY <1>5, <1>7
        <5> HIDE DEF N
        <5> QED BY <1>4, <1>5, <4>1, <5>1, FewRowsFit
      <4> QED BY SMTT(20), <3>3, <4>1, DeskAssumption
    <3>5. walk.present \subseteq FirstRows(L) => walk.present \subseteq walk'.seen
      BY <1>1, <1>8, <1>10, <3>2
    <3>6. WalkIsComplete'
      BY <1>1, <2>3, <3>4, <3>5 DEF WalkIsComplete
    <3>7. walk'.seen \subseteq Ids'
      BY <1>1, <1>2, <1>4, ListedAreIds DEF WalkIsPrefix, L
    <3> QED BY <1>1, <1>2, <1>3, <1>5, <3>1, <3>6, <3>7 DEF WalkIsPrefix
  <2>4. CASE walk.reader = "Paginate"
    <3>1. walk'.done => Cardinality(page) < PageSize
      BY <1>1, <2>1, <2>4 DEF Stops, Paginate
    <3>2. walk'.done => page = behind
      <4> HIDE DEF behind
      <4> QED BY <1>4, <1>7, <1>8, <1>10, <3>1, ShortPageIsAll
    <3>3. walk'.done => walk.present \subseteq walk'.seen
      <4> SUFFICES ASSUME walk'.done, NEW n \in walk.present PROVE n \in walk.seen \cup page
        BY <1>1
      <4>1. n \in L /\ n \in Nat
        BY SMTT(20), <1>4, <1>5
      <4>2. n <= walk.cursor \/ n \in behind
        BY SMTT(20), <1>4, <4>1
      <4> HIDE DEF behind, page
      <4> QED BY <1>6, <1>10, <3>2, <4>2
    <3>4. walk'.seen \subseteq Ids'
      BY <1>1, <1>2, <1>4, ListedAreIds DEF WalkIsPrefix, L
    <3> HIDE DEF L, behind, page, next
    <3>5. WalkIsPrefix'
      BY <1>1, <1>2, <1>3, <1>5, <2>2, <2>4, <3>4 DEF WalkIsPrefix
    <3> QED BY <1>1, <3>3, <3>5 DEF WalkIsComplete
  <2>5. CASE walk.reader = "walkFundJourPages"
    <3>1. walk'.done => walk.pages + 1 = maxPages
      BY <1>1, <2>1, <2>5 DEF Stops, walkFundJourPages
    <3>2. walk'.done => walk'.pages = maxPages
      BY <1>1, <3>1, DeskAssumption
    <3>4. walk'.seen \subseteq Ids'
      BY <1>1, <1>2, <1>4, ListedAreIds DEF WalkIsPrefix, L
    <3> HIDE DEF L, behind, page, next
    <3>5. WalkIsPrefix'
      BY <1>1, <1>2, <1>3, <1>5, <2>2, <2>5, <3>4 DEF WalkIsPrefix
    <3> QED BY <1>1, <2>5, <3>2, <3>5 DEF WalkIsComplete
  <2> QED BY <1>1, <2>3, <2>4, <2>5
<1>11. CASE cursors = "repeat"
  <2>1. walk'.seen \subseteq Ids'
    BY <1>1, <1>2, <1>4, ListedAreIds DEF WalkIsPrefix, L
  <2>2. walk'.reader = "first page" => walk'.done
    BY <1>1 DEF Stops
  <2> HIDE DEF L, behind, page, next
  <2> QED BY <1>1, <1>2, <1>3, <1>5, <1>11, <2>1, <2>2 DEF WalkIsPrefix, WalkIsComplete
<1> QED BY <1>9, <1>10, <1>11

LEMMA WalkInvNext ==
    ASSUME DeskTypes, IdsNameOrders, WalkHasReason, WalkInv, [Next]_vars
    PROVE  WalkInv'
<1>1. CASE walk' = walk
  BY <1>1, RowsStep, WalkKeeps
<1>2. CASE walk' = NoWalk
  <2>1. walk'.seen = {} /\ walk'.present = {} /\ walk'.done = FALSE /\ walk'.reader = "none"
    BY <1>2 DEF NoWalk
  <2> QED BY <2>1 DEF WalkInv, WalkIsPrefix, WalkIsComplete
<1>3. ASSUME NEW for \in Intents \cup {Other}, NEW reader \in Readers, Start(for, reader)
      PROVE  WalkInv'
  <2>1. /\ walk'.cursor = 0 /\ walk'.seen = {} /\ walk'.present = Listed(walk') /\ walk'.done = FALSE
    BY <1>3, StartedWalk
  <2>2. Listed(walk)' = Listed(walk')
    BY <1>3 DEF Start, fixed, Listed, Ids
  <2>3. walk'.present \subseteq Ids /\ Ids \subseteq 1..Len(rows) /\ Len(rows) \in Nat
    BY <2>1, ListedAreIds, IdsAreBounded
  <2>4. ASSUME NEW n \in walk'.present PROVE ~(n <= 0)
    <3>1. n \in 1..Len(rows)
      BY <2>3
    <3> QED BY SMTT(20), <2>3, <3>1
  <2> QED BY <2>1, <2>2, <2>4 DEF WalkInv, WalkIsPrefix, WalkIsComplete
<1>4. \A r \in {"first page", "Paginate", "walkFundJourPages"} : r \in Readers
  BY DEF Readers
<1>5. ASSUME NEW i \in Intents, ReadEntrusts(i) PROVE WalkInv'
  BY <1>3, <1>4, <1>5 DEF ReadEntrusts
<1>6. CASE ReadJournal
  BY <1>3, <1>4, <1>6 DEF ReadJournal
<1> QED BY <1>1, <1>2, <1>5, <1>6, WalkStep, WalkFetches

-----------------------------------------------------------------------------
(* Orders and requests                                                     *)

LEMMA OrdersGrow ==
    ASSUME RowsGrow, NEW i
    PROVE  OrdersOf(i) \subseteq OrdersOf(i)' /\ (Ids' = Ids => OrdersOf(i)' = OrdersOf(i))
  BY DEF RowsGrow, OrdersOf

\* Booking a request makes the order of its intent, and no other.
LEMMA BookedOrder ==
    ASSUME DeskTypes, NEW m \in wire, Book(m)
    PROVE  /\ m.intent \in Intents
           /\ OrdersOf(m.intent)' = OrdersOf(m.intent) \cup {Len(rows) + 1}
           /\ \A i \in Intents : i # m.intent => OrdersOf(i)' = OrdersOf(i)
           /\ \A n \in Ids : rows'[n] = rows[n]
           /\ Len(rows) + 1 \notin Ids
<1> DEFINE o == [intent |-> m.intent, exchange |-> m.exchange, live |-> TRUE]
<1>1. m.intent \in Intents /\ o \in Row
  BY DEF DeskTypes, Row
<1>2. /\ Ids' = Ids \cup {Len(rows) + 1} /\ Len(rows) + 1 \notin Ids
      /\ \A n \in Ids : rows'[n] = rows[n]
      /\ rows'[Len(rows) + 1] = o
  BY <1>1, AppendGrows DEF Book
<1>3. rows'[Len(rows) + 1].intent = m.intent
  BY SMTT(20), <1>2
<1> QED BY <1>1, <1>2, <1>3 DEF OrdersOf

LEMMA OthersOrder ==
    ASSUME DeskTypes, OtherOrder
    PROVE  /\ \A i \in Intents : OrdersOf(i)' = OrdersOf(i)
           /\ \A n \in Ids : rows'[n] = rows[n]
<1>1. PICK j \in Intents :
        rows' = Append(rows, [intent |-> Other, exchange |-> ExchangeOf(market[j]), live |-> TRUE])
  BY DEF OtherOrder
<1> DEFINE o == [intent |-> Other, exchange |-> ExchangeOf(market[j]), live |-> TRUE]
<1>2. o \in Row
  BY OrderGoesToItsBook DEF Row
<1>3. /\ Ids' = Ids \cup {Len(rows) + 1} /\ Len(rows) + 1 \notin Ids
      /\ \A n \in Ids : rows'[n] = rows[n]
      /\ rows'[Len(rows) + 1] = o
  BY <1>1, <1>2, AppendGrows
<1>4. rows'[Len(rows) + 1].intent = Other
  BY SMTT(20), <1>3
<1> QED BY <1>3, <1>4, DeskAssumption DEF OrdersOf

\* A cancel names an order of the intent, and can only end that one.
LEMMA CancelledOrder ==
    ASSUME DeskTypes, IdsNameOrders, NEW i \in Intents, Cancel(i)
    PROVE  /\ known[i] \in OrdersOf(i)
           /\ \A j \in Intents : OrdersOf(j)' = OrdersOf(j)
           /\ \A n \in Ids : rows[n].live = FALSE => rows'[n].live = FALSE
           /\ desk'[i] \in {"cancelled", "unknown order"}
           /\ desk'[i] = "cancelled" => rows'[known[i]].live = FALSE
           /\ \A j \in Intents : j # i => desk'[j] = desk[j]
<1>1. known[i] \in OrdersOf(i) /\ known[i] \in Ids
  BY WithdrawNamesAnOrder DEF Cancel, IdsNameOrders, OrdersOf
<1> DEFINE found == rows[known[i]].exchange = Withdraw(i).body.exchangeType
<1>2. /\ rows' = IF found THEN [rows EXCEPT ![known[i]].live = FALSE] ELSE rows
      /\ desk' = [desk EXCEPT ![i] = IF found THEN "cancelled" ELSE "unknown order"]
  BY DEF Cancel
<1>3. /\ desk'[i] = IF found THEN "cancelled" ELSE "unknown order"
      /\ \A j \in Intents : j # i => desk'[j] = desk[j]
  BY <1>2 DEF DeskTypes
<1>4. CASE found
  <2>1. /\ RowsGrow /\ Ids' = Ids
        /\ \A n \in Ids : n # known[i] => rows'[n] = rows[n]
        /\ rows'[known[i]] = [rows[known[i]] EXCEPT !.live = FALSE]
    BY <1>1, <1>2, <1>4, CancelGrows
  <2>2. rows'[known[i]].live = FALSE
    BY <1>1, <2>1, IdsAreBounded DEF Row
  <2>3. \A j \in Intents : OrdersOf(j)' = OrdersOf(j)
    BY <2>1, OrdersGrow
  <2> QED BY <1>1, <1>3, <2>1, <2>2, <2>3
<1>5. CASE ~found
  <2>1. \A j \in Intents : OrdersOf(j)' = OrdersOf(j)
    BY <1>2, <1>5 DEF OrdersOf, Ids
  <2>2. rows' = rows /\ desk'[i] = "unknown order" /\ "unknown order" # "cancelled"
    BY <1>2, <1>3, <1>5
  <2> HIDE DEF found
  <2> QED BY <1>1, <1>3, <2>1, <2>2
<1> QED BY <1>4, <1>5

LEMMA IdsNameOrdersNext ==
    ASSUME DeskTypes, IdsNameOrders, WalkIsPrefix, [Next]_vars
    PROVE  IdsNameOrders'
<1>1. RowsGrow
  BY RowsStep
<1>2. \A i : OrdersOf(i) \subseteq OrdersOf(i)'
  BY <1>1, OrdersGrow
<1>3. /\ \A r \in replies : r.id \in OrdersOf(r.intent)'
      /\ \A i \in Intents : known[i] # NoId => known[i] \in OrdersOf(i)'
  BY <1>2 DEF IdsNameOrders
<1>4. CASE replies' \subseteq replies /\ UNCHANGED known
  BY <1>3, <1>4 DEF IdsNameOrders
<1>5. ASSUME NEW m \in wire, Book(m) PROVE IdsNameOrders'
  <2>1. Len(rows) + 1 \in OrdersOf(m.intent)'
    BY <1>5, BookedOrder
  <2>2. \A r \in replies' : r \in replies \/ r = [intent |-> m.intent, id |-> Len(rows) + 1]
    BY <1>5 DEF Book
  <2>3. \A r \in replies' : r.id \in OrdersOf(r.intent)'
    BY SMTT(20), <1>3, <2>1, <2>2
  <2> QED BY <1>3, <1>5, <2>3 DEF IdsNameOrders, Book
<1>6. ASSUME NEW i \in Intents, NEW r \in replies, Answered(i, r) PROVE IdsNameOrders'
  <2>1. replies' \subseteq replies /\ r.intent = i
    BY <1>6 DEF Answered
  <2>2. known'[i] \in {NoId, r.id} /\ \A j \in Intents : j # i => known'[j] = known[j]
    BY <1>6 DEF Answered, DeskTypes, entrustWireResponse, trade_CommonStringResponse
  <2> QED BY <1>3, <2>1, <2>2 DEF IdsNameOrders
<1>7. ASSUME NEW i \in Intents, Conclude(i), Mine(i) # {} PROVE IdsNameOrders'
  <2>1. Max(Mine(i)) \in OrdersOf(i)
    BY <1>7, FoundIsMine
  <2>2. known'[i] = Max(Mine(i)) /\ (\A j \in Intents : j # i => known'[j] = known[j]) /\ UNCHANGED replies
    BY <1>7 DEF Conclude, DeskTypes
  <2> QED BY <1>2, <1>3, <2>1, <2>2 DEF IdsNameOrders
<1>8. ASSUME NEW i \in Intents, Conclude(i), Mine(i) = {} PROVE IdsNameOrders'
  BY <1>4, <1>8 DEF Conclude
<1> QED BY <1>4, <1>5, <1>6, <1>7, <1>8
        DEF Next, vars, Submit, NoAnswer, Cancel, ReadEntrusts, call_Refused, Lose,
            SessionChanges, OtherOrder, ReadJournal, Start, Fetch, FetchFails, PutAway

LEMMA WalkHasReasonNext ==
    ASSUME DeskTypes, WalkHasReason, [Next]_vars
    PROVE  WalkHasReason'
<1> USE DEF WalkHasReason
<1>1. CASE walk' = NoWalk
  <2>1. walk'.for \notin Intents
    BY <1>1, DeskAssumption DEF NoWalk
  <2> QED BY <1>1, <2>1
<1>2. ASSUME NEW i \in Intents, ReadEntrusts(i) PROVE WalkHasReason'
  <2> DEFINE r == IF layer = "vnext" THEN "first page" ELSE "Paginate"
  <2>1. r \in Readers /\ r # "none" /\ r # "walkFundJourPages"
    BY DEF Readers
  <2>2. walk'.for = i /\ walk'.reader = r
    BY <1>2, <2>1, StartedWalk DEF ReadEntrusts
  <2> HIDE DEF r
  <2> QED BY <1>2, <2>1, <2>2 DEF ReadEntrusts, Start
<1>3. CASE ReadJournal
  <2> DEFINE r == IF layer = "vnext" THEN "walkFundJourPages" ELSE "Paginate"
  <2>1. r \in Readers /\ r # "none"
    BY DEF Readers
  <2>2. walk'.for = Other /\ walk'.reader = r
    BY <1>3, <2>1, StartedWalk DEF ReadJournal
  <2> HIDE DEF r
  <2> QED BY <2>1, <2>2, DeskAssumption
<1>4. CASE Fetch
  <2>1. walk'.for = walk.for /\ walk'.reader = walk.reader /\ walk.reader # "none"
    BY <1>4, FetchedWalk
  <2> QED BY <1>4, <2>1 DEF Fetch
<1>5. ASSUME walk' = walk,
             \A i \in Intents : walk.for = i => desk'[i] = desk[i] /\ known'[i] = known[i]
      PROVE  WalkHasReason'
  BY <1>5
<1>6. ASSUME NEW i \in Intents, Submit(i) \/ NoAnswer(i) PROVE WalkHasReason'
  <2>1. walk.for # i
    BY <1>6 DEF Submit, NoAnswer
  <2>2. \A j \in Intents : j # i => desk'[j] = desk[j]
    BY <1>6 DEF Submit, NoAnswer, DeskTypes
  <2> QED BY <1>5, <1>6, <2>1, <2>2 DEF Submit, NoAnswer
<1>7. ASSUME NEW i \in Intents, Cancel(i) PROVE WalkHasReason'
  <2>1. known[i] # NoId
    BY <1>7, WithdrawNamesAnOrder DEF Cancel
  <2>2. walk.for # i
    BY <1>7, <2>1 DEF Cancel
  <2>3. \A j \in Intents : j # i => desk'[j] = desk[j]
    BY <1>7 DEF Cancel, DeskTypes
  <2> QED BY <1>5, <1>7, <2>2, <2>3 DEF Cancel
<1>8. ASSUME NEW i \in Intents, NEW r \in replies, Answered(i, r) PROVE WalkHasReason'
  <2>1. walk.for # i
    BY <1>8 DEF Answered
  <2>2. \A j \in Intents : j # i => desk'[j] = desk[j] /\ known'[j] = known[j]
    BY <1>8 DEF Answered, DeskTypes
  <2> QED BY <1>5, <1>8, <2>1, <2>2 DEF Answered
<1>9. ASSUME NEW m \in wire, call_Refused(m) PROVE WalkHasReason'
  <2>1. \A j \in Intents : desk[j] # "waiting" => desk'[j] = desk[j]
    BY <1>9 DEF call_Refused, DeskTypes
  <2>2. \A j \in Intents : walk.for = j => desk[j] # "waiting"
    OBVIOUS
  <2> QED BY <1>5, <1>9, <2>1, <2>2 DEF call_Refused
<1>10. CASE UNCHANGED <<walk, desk, known>>
  BY <1>5, <1>10
<1> QED BY <1>1, <1>2, <1>3, <1>4, <1>6, <1>7, <1>8, <1>9, <1>10
        DEF Next, vars, Conclude, Book, Lose, SessionChanges, OtherOrder, FetchFails, PutAway

-----------------------------------------------------------------------------
(* One order per intent                                                    *)

\* A step that adds nothing of the intent and does not free the caller.
LEMMA OnceFrame ==
    ASSUME NEW i \in Intents, OnceFor(i), OrdersOf(i)' = OrdersOf(i), RequestsOf(i)' \subseteq RequestsOf(i),
           excuse'[i] = excuse[i],
           desk'[i] = desk[i] \/ desk'[i] \in {"waiting", "ambiguous", "placed", "unknown order"},
           \A n \in OrdersOf(i) : ~rows[n].live => ~rows'[n].live
    PROVE  OnceFor(i)'
<1> SUFFICES ASSUME excuse[i] = {}
             PROVE  /\ Single(i)'
                    /\ desk'[i] \in {"idle", "absent", "refused"} => OrdersOf(i)' = {} /\ RequestsOf(i)' = {}
                    /\ desk'[i] = "cancelled" =>
                          RequestsOf(i)' = {} /\ \A n \in OrdersOf(i)' : ~rows'[n].live
  BY DEF OnceFor
<1>1. Single(i)'
  BY DEF OnceFor, Single
<1> QED BY <1>1 DEF OnceFor

LEMMA OnceSubmit ==
    ASSUME DeskTypes, OnceEach, NEW i \in Intents, Submit(i)
    PROVE  OnceEach'
<1> DEFINE m == [intent |-> i, try |-> tries[i] + 1, exchange |-> Place(i).body.exchangeType]
<1>1. /\ desk[i] \in {"idle", "absent", "refused"} /\ wire' = wire \cup {m}
      /\ UNCHANGED <<rows, excuse>> /\ m.intent = i
  BY DEF Submit
<1>2. desk'[i] = "waiting" /\ \A j \in Intents : j # i => desk'[j] = desk[j]
  BY DEF Submit, DeskTypes
<1> HIDE DEF m
<1>3. \A j \in Intents : OrdersOf(j)' = OrdersOf(j)
  BY <1>1 DEF OrdersOf, Ids
<1>4. \A j \in Intents : j # i => RequestsOf(j)' = RequestsOf(j)
  BY <1>1 DEF RequestsOf
<1>5. RequestsOf(i)' = RequestsOf(i) \cup {m}
  BY <1>1 DEF RequestsOf
<1>6. ASSUME NEW j \in Intents PROVE OnceFor(j)'
  <2>1. CASE j # i
    BY <1>1, <1>2, <1>3, <1>4, <2>1, OnceFrame DEF OnceEach
  <2>2. CASE j = i
    <3>1. excuse[i] = {} => OrdersOf(i) = {} /\ RequestsOf(i) = {}
      BY <1>1 DEF OnceEach, OnceFor
    <3>2. excuse[i] = {} => Single(i)'
      BY <1>3, <1>5, <3>1 DEF Single
    <3> QED BY <1>1, <1>2, <2>2, <3>2 DEF OnceFor
  <2> QED BY <2>1, <2>2
<1> QED BY <1>6 DEF OnceEach

LEMMA OnceBook ==
    ASSUME DeskTypes, OnceEach, NEW m \in wire, Book(m)
    PROVE  OnceEach'
<1> DEFINE i == m.intent
<1>1. /\ i \in Intents /\ OrdersOf(i)' = OrdersOf(i) \cup {Len(rows) + 1}
      /\ \A j \in Intents : j # i => OrdersOf(j)' = OrdersOf(j)
      /\ \A n \in Ids : rows'[n] = rows[n]
  BY BookedOrder
<1>2. wire' = wire \ {m} /\ UNCHANGED <<desk, excuse>>
  BY DEF Book
<1>3. \A j \in Intents : RequestsOf(j)' \subseteq RequestsOf(j)
  BY <1>2 DEF RequestsOf
<1>4. m \in RequestsOf(i) /\ m \notin RequestsOf(i)'
  BY <1>2 DEF RequestsOf
<1> HIDE DEF i
<1>5. ASSUME NEW j \in Intents PROVE OnceFor(j)'
  <2>1. CASE j # i
    <3>1. \A n \in OrdersOf(j) : n \in Ids
      BY DEF OrdersOf
    <3> QED BY <1>1, <1>2, <1>3, <2>1, <3>1, OnceFrame DEF OnceEach
  <2>2. CASE j = i
    <3>1. excuse[i] = {} =>
            /\ OrdersOf(i) = {} /\ \A l \in RequestsOf(i) : l = m
            /\ desk[i] \notin {"idle", "absent", "refused", "cancelled"}
      BY <1>1, <1>4 DEF OnceEach, OnceFor, Single
    <3>2. excuse[i] = {} => Single(i)'
      BY <1>1, <1>3, <1>4, <3>1 DEF Single
    <3> QED BY <1>2, <2>2, <3>1, <3>2 DEF OnceFor
  <2> QED BY <2>1, <2>2
<1> QED BY <1>5 DEF OnceEach

LEMMA OnceRefused ==
    ASSUME DeskTypes, OnceEach, NEW m \in wire, call_Refused(m)
    PROVE  OnceEach'
<1> DEFINE i == m.intent
<1>1. /\ i \in Intents /\ wire' = wire \ {m} /\ UNCHANGED <<rows, excuse>>
      /\ desk'[i] = desk[i] \/ desk'[i] = "refused"
      /\ \A j \in Intents : j # i => desk'[j] = desk[j]
  BY DEF call_Refused, DeskTypes
<1>2. \A j \in Intents : OrdersOf(j)' = OrdersOf(j) /\ RequestsOf(j)' \subseteq RequestsOf(j)
  BY <1>1 DEF OrdersOf, Ids, RequestsOf
<1>3. m \in RequestsOf(i) /\ m \notin RequestsOf(i)'
  BY <1>1 DEF RequestsOf
<1> HIDE DEF i
<1>4. ASSUME NEW j \in Intents PROVE OnceFor(j)'
  <2>1. CASE desk'[j] = desk[j]
    BY <1>1, <1>2, <2>1, OnceFrame DEF OnceEach
  <2>2. CASE j = i /\ desk'[i] = "refused"
    <3>1. excuse[i] = {} => OrdersOf(i) = {} /\ \A l \in RequestsOf(i) : l = m
      BY <1>1, <1>3 DEF OnceEach, OnceFor, Single
    <3>2. excuse[i] = {} => OrdersOf(i)' = {} /\ RequestsOf(i)' = {}
      BY <1>1, <1>2, <1>3, <3>1
    <3>3. excuse[i] = {} => Single(i)'
      BY <3>2 DEF Single
    <3> QED BY <1>1, <2>2, <3>2, <3>3 DEF OnceFor
  <2> QED BY <1>1, <2>1, <2>2
<1> QED BY <1>4 DEF OnceEach

LEMMA OnceCancel ==
    ASSUME DeskTypes, IdsNameOrders, OnceEach, NEW i \in Intents, Cancel(i)
    PROVE  OnceEach'
<1>1. /\ known[i] \in OrdersOf(i)
      /\ \A j \in Intents : OrdersOf(j)' = OrdersOf(j)
      /\ \A n \in Ids : rows[n].live = FALSE => rows'[n].live = FALSE
      /\ desk'[i] \in {"cancelled", "unknown order"}
      /\ desk'[i] = "cancelled" => rows'[known[i]].live = FALSE
      /\ \A j \in Intents : j # i => desk'[j] = desk[j]
  BY CancelledOrder
<1>2. UNCHANGED <<wire, excuse>>
  BY DEF Cancel
<1>3. \A j \in Intents : RequestsOf(j)' = RequestsOf(j)
  BY <1>2 DEF RequestsOf
<1>4. ASSUME NEW j \in Intents, NEW n \in OrdersOf(j), ~rows[n].live PROVE ~rows'[n].live
  <2>1. n \in Ids /\ rows[n].live \in BOOLEAN
    BY IdsAreBounded DEF OrdersOf, Row
  <2>2. rows[n].live = FALSE
    BY <1>4, <2>1
  <2>3. rows'[n].live = FALSE
    BY <1>1, <2>1, <2>2
  <2> QED BY <2>3
<1>5. ASSUME NEW j \in Intents PROVE OnceFor(j)'
  <2>1. CASE j # i \/ desk'[i] = "unknown order"
    BY <1>1, <1>2, <1>3, <1>4, <2>1, OnceFrame DEF OnceEach
  <2>2. CASE j = i /\ desk'[i] = "cancelled"
    <3>1. excuse[i] = {} => Single(i) /\ RequestsOf(i) = {} /\ \A n \in OrdersOf(i) : n = known[i]
      BY <1>1 DEF OnceEach, OnceFor, Single
    <3>2. excuse[i] = {} => Single(i)' /\ RequestsOf(i)' = {} /\ \A n \in OrdersOf(i)' : ~rows'[n].live
      BY <1>1, <1>3, <2>2, <3>1 DEF Single
    <3> QED BY <1>2, <2>2, <3>2 DEF OnceFor
  <2> QED BY <1>1, <2>1, <2>2
<1> QED BY <1>5 DEF OnceEach

\* Without an excuse a walk that does not show the order means there is none.
LEMMA AbsentMeansNone ==
    ASSUME DeskTypes, WalkHasReason, WalkIsComplete, NEW i \in Intents,
           walk.for = i, walk.done, Mine(i) = {}, Excuses(i) = {}
    PROVE  OrdersOf(i) = {} /\ RequestsOf(i) = {}
<1>1. /\ RequestsOf(i) = {} /\ OrdersOf(i) \ walk.present = {}
      /\ match # "id"
      /\ ~(walk.reader = "first page" /\ Cardinality(walk.present) > PageSize)
      /\ cursors # "repeat"
  <2>1. "late" \notin Excuses(i) /\ "no id" \notin Excuses(i) /\ "one page" \notin Excuses(i)
        /\ "cursor" \notin Excuses(i)
    OBVIOUS
  <2>2. RequestsOf(i) = {} /\ OrdersOf(i) \ walk.present = {}
    BY <2>1 DEF Excuses
  <2>3. match # "id"
    BY <2>1 DEF Excuses
  <2>4. ~(walk.reader = "first page" /\ Cardinality(walk.present) > PageSize)
    BY <2>1 DEF Excuses
  <2>5. cursors # "repeat"
    BY <2>1 DEF Excuses
  <2> QED BY <2>2, <2>3, <2>4, <2>5
<1>2. walk.reader # "walkFundJourPages"
  BY DEF WalkHasReason
<1>3. walk.present \subseteq walk.seen
  BY <1>1, <1>2 DEF WalkIsComplete
<1>4. OrdersOf(i) \subseteq Mine(i)
  BY <1>1, <1>3 DEF Mine, OrdersOf
<1> QED BY <1>1, <1>4

LEMMA OnceConclude ==
    ASSUME DeskTypes, WalkHasReason, WalkIsComplete, OnceEach, NEW i \in Intents, Conclude(i)
    PROVE  OnceEach'
<1>1. UNCHANGED <<rows, wire>> /\ walk.for = i /\ walk.done
  BY DEF Conclude
<1>2. \A j \in Intents : OrdersOf(j)' = OrdersOf(j) /\ RequestsOf(j)' = RequestsOf(j)
  BY <1>1 DEF OrdersOf, RequestsOf, Ids
<1>3. ASSUME NEW j \in Intents, excuse'[j] = excuse[j], desk'[j] = desk[j] \/ desk'[j] = "placed"
      PROVE  OnceFor(j)'
  BY <1>1, <1>2, <1>3, OnceFrame DEF OnceEach
<1>4. CASE Mine(i) # {}
  <2>1. \A j \in Intents : excuse'[j] = excuse[j] /\ (desk'[j] = desk[j] \/ desk'[j] = "placed")
    BY <1>4 DEF Conclude, DeskTypes
  <2> QED BY <1>3, <2>1 DEF OnceEach
<1>5. CASE Mine(i) = {}
  <2>1. /\ desk' = [desk EXCEPT ![i] = IF desk[i] = "ambiguous" THEN "absent" ELSE desk[i]]
        /\ excuse' = [excuse EXCEPT ![i] =
               IF desk[i] = "ambiguous" THEN excuse[i] \union Excuses(i) ELSE excuse[i]]
    BY <1>5 DEF Conclude
  <2>2. \A j \in Intents : j # i \/ desk[i] # "ambiguous" => excuse'[j] = excuse[j] /\ desk'[j] = desk[j]
    BY <2>1 DEF DeskTypes
  <2>3. desk[i] = "ambiguous" => desk'[i] = "absent" /\ excuse'[i] = excuse[i] \union Excuses(i)
    BY <2>1 DEF DeskTypes
  <2>4. ASSUME NEW j \in Intents PROVE OnceFor(j)'
    <3>1. CASE j # i \/ desk[i] # "ambiguous"
      BY <1>3, <2>2, <3>1
    <3>2. CASE j = i /\ desk[i] = "ambiguous"
      <4>1. excuse'[i] = {} => OrdersOf(i) = {} /\ RequestsOf(i) = {}
        BY <1>1, <1>5, <2>3, <3>2, AbsentMeansNone
      <4>2. excuse'[i] = {} => OrdersOf(i)' = {} /\ RequestsOf(i)' = {}
        BY <1>2, <4>1
      <4>3. excuse'[i] = {} => Single(i)'
        BY <4>2 DEF Single
      <4> QED BY <2>3, <3>2, <4>2, <4>3 DEF OnceFor
    <3> QED BY <3>1, <3>2
  <2> QED BY <2>4 DEF OnceEach
<1> QED BY <1>4, <1>5

LEMMA OnceEachNext ==
    ASSUME DeskInv, [Next]_vars
    PROVE  OnceEach'
<1> USE DEF DeskInv
<1>1. ASSUME UNCHANGED excuse, \A j \in Intents : OrdersOf(j)' = OrdersOf(j),
             \A n \in Ids : rows'[n] = rows[n], wire' \subseteq wire,
             \A j \in Intents : desk'[j] = desk[j]
                                  \/ desk'[j] \in {"waiting", "ambiguous", "placed", "unknown order"}
      PROVE  OnceEach'
  <2>1. ASSUME NEW j \in Intents PROVE OnceFor(j)'
    <3>1. RequestsOf(j)' \subseteq RequestsOf(j)
      BY <1>1 DEF RequestsOf
    <3>2. \A n \in OrdersOf(j) : ~rows[n].live => ~rows'[n].live
      BY <1>1 DEF OrdersOf
    <3> QED BY <1>1, <3>1, <3>2, OnceFrame DEF OnceEach
  <2> QED BY <2>1 DEF OnceEach
<1>2. UNCHANGED rows => (\A j \in Intents : OrdersOf(j)' = OrdersOf(j)) /\ \A n \in Ids : rows'[n] = rows[n]
  BY DEF OrdersOf, Ids
<1>3. ASSUME NEW i \in Intents, NoAnswer(i) PROVE OnceEach'
  BY <1>1, <1>2, <1>3 DEF NoAnswer, DeskTypes
<1>4. ASSUME NEW i \in Intents, NEW r \in replies, Answered(i, r) PROVE OnceEach'
  BY <1>1, <1>2, <1>4 DEF Answered, DeskTypes
<1>5. ASSUME NEW m \in wire, Lose(m) PROVE OnceEach'
  BY <1>1, <1>2, <1>5 DEF Lose
<1>6. CASE OtherOrder
  <2>1. (\A j \in Intents : OrdersOf(j)' = OrdersOf(j)) /\ \A n \in Ids : rows'[n] = rows[n]
    BY <1>6, OthersOrder
  <2> QED BY <1>1, <1>6, <2>1 DEF OtherOrder
<1>7. CASE UNCHANGED <<rows, wire, desk, excuse>>
  BY <1>1, <1>2, <1>7
<1> QED BY <1>3, <1>4, <1>5, <1>6, <1>7, OnceSubmit, OnceBook, OnceRefused, OnceCancel, OnceConclude
        DEF Next, vars, SessionChanges, ReadEntrusts, ReadJournal, Start, Fetch, FetchFails, PutAway

LEMMA DeskInvInit == Init => DeskInv
<1> SUFFICES ASSUME Init PROVE DeskInv
  OBVIOUS
<1>1. rows \in Seq(Row) /\ Ids = {}
  BY SMTT(20) DEF Init, Ids
<1>2. walk \in WalkStates /\ walk = NoWalk
  BY NoWalkIsAWalk DEF Init
<1>3. DeskTypes
  BY <1>1, <1>2 DEF Init, DeskTypes, WalkStates, NoId
<1>4. \A i : OrdersOf(i) = {} /\ RequestsOf(i) = {}
  BY <1>1 DEF Init, OrdersOf, RequestsOf
<1>5. IdsNameOrders
  BY DEF Init, IdsNameOrders
<1>6. WalkHasReason
  BY <1>2, DeskAssumption DEF WalkHasReason, NoWalk
<1>7. walk.seen = {} /\ walk.present = {} /\ walk.done = FALSE /\ walk.reader = "none"
  BY <1>2 DEF NoWalk
<1>8. WalkIsPrefix /\ WalkIsComplete
  BY <1>7 DEF WalkIsPrefix, WalkIsComplete
<1>9. OnceEach
  <2>1. ASSUME NEW i \in Intents PROVE OnceFor(i)
    BY <1>4 DEF OnceFor, Single
  <2> QED BY <2>1 DEF OnceEach
<1> QED BY <1>3, <1>5, <1>6, <1>8, <1>9 DEF DeskInv

LEMMA DeskInvNext == DeskInv /\ [Next]_vars => DeskInv'
<1> SUFFICES ASSUME DeskInv, [Next]_vars PROVE DeskInv'
  OBVIOUS
<1>1. DeskTypes /\ IdsNameOrders /\ WalkHasReason /\ WalkIsPrefix /\ WalkIsComplete
  BY DEF DeskInv
<1>2. DeskTypes' /\ IdsNameOrders' /\ WalkHasReason'
  BY <1>1, DeskTypesNext, IdsNameOrdersNext, WalkHasReasonNext
<1>3. WalkIsPrefix' /\ WalkIsComplete'
  BY <1>1, WalkInvNext DEF WalkInv
<1> QED BY <1>2, <1>3, OnceEachNext DEF DeskInv

LEMMA DeskIsSound == Spec => []DeskInv
  BY DeskInvInit, DeskInvNext, PTL DEF Spec

\* OneOrderPerIntent for any number of intents, submissions and rows: a caller
\* that reconciles before it submits again never places an order twice, except
\* for the four reasons the history variable names.
THEOREM ReconcilingPlacesOnce == Spec => []OneOrderPerIntent
<1>1. DeskInv => OneOrderPerIntent
  <2> SUFFICES ASSUME DeskInv, NEW i \in Intents, excuse[i] = {}
               PROVE  Cardinality(OrdersOf(i)) + Cardinality(RequestsOf(i)) <= 1
    BY DEF OneOrderPerIntent
  <2>1. Single(i)
    BY DEF DeskInv, OnceEach, OnceFor
  <2>2. ASSUME NEW S, \A x, y \in S : x = y PROVE Cardinality(S) \in {0, 1} /\ (S = {} => Cardinality(S) = 0)
    <3>1. CASE S = {}
      BY <3>1, FS_EmptySet
    <3>2. ASSUME NEW x \in S PROVE Cardinality(S) = 1
      <4>1. S = {x}
        BY <2>2
      <4> QED BY <4>1, FS_Singleton
    <3> QED BY <3>1, <3>2
  <2>3. /\ Cardinality(OrdersOf(i)) \in {0, 1} /\ (OrdersOf(i) = {} => Cardinality(OrdersOf(i)) = 0)
        /\ Cardinality(RequestsOf(i)) \in {0, 1} /\ (RequestsOf(i) = {} => Cardinality(RequestsOf(i)) = 0)
    BY <2>1, <2>2 DEF Single
  <2> QED BY SMTT(20), <2>1, <2>3 DEF Single
<1> QED BY <1>1, DeskIsSound, PTL

\* CancelledIsGone for every instance: with the same exceptions, an intent the
\* caller has had cancelled has no live order and no request under way.
THEOREM CancelIsFinal == Spec => []CancelledIsGone
<1>1. DeskInv => CancelledIsGone
  BY DEF DeskInv, OnceEach, OnceFor, CancelledIsGone
<1> QED BY <1>1, DeskIsSound, PTL

\* WalkIsComplete for every page size, page bound and list: a walk that ended by
\* itself over a Gateway that honours the cursor missed no row that was there
\* when it started.
THEOREM WalksMissNothing == Spec => []WalkIsComplete
<1>1. DeskInv => WalkIsComplete
  BY DEF DeskInv
<1> QED BY <1>1, DeskIsSound, PTL

=============================================================================
