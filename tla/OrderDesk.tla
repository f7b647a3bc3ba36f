----------------------------- MODULE OrderDesk -----------------------------
(***************************************************************************)
(* A caller placing and cancelling cash orders through either layer, over  *)
(* a connection that loses requests and replies.  No order mutation is     *)
(* ever repeated by the SDK (docs/adr/0003-no-auto-retry-orders.md): a     *)
(* caller that got no answer reads the entrust list, and submits again     *)
(* only when its order is not there.  The lists and the fund journal are   *)
(* read page by page with the cursor walks of trade/pagination.go and      *)
(* services/account.go.                                                    *)
(*                                                                         *)
(* The caller has one goroutine: one walk at a time.  The Gateway, its     *)
(* order book and its cursors are external, modelled from how the walks    *)
(* use them: a page holds the rows after the cursor, and the cursor of a   *)
(* row is its number.  A Gateway may also ignore the cursor ("repeat") or  *)
(* start over behind the last row ("wrap").                                *)
(***************************************************************************)
EXTENDS CashCalls, FiniteSetsExt

CONSTANTS
    Intents,    \* orders the caller wants, one each
    MaxTries,   \* submissions of one intent
    MaxRows,    \* rows of the Gateway's entrust list
    PageSize,   \* rows per page (50 or 20 in the code)
    maxPages    \* walkFundJourPages' bound (1000 in the code)

\* Whose order a row is that belongs to no intent of the caller.
Other == "another client"

ASSUME DeskAssumption ==
    /\ Other \notin Intents
    /\ MaxTries \in Nat /\ MaxRows \in Nat
    /\ PageSize \in Nat \ {0} /\ maxPages \in Nat \ {0}

VARIABLES
    layer,      \* "vnext" or "released": the methods the caller uses
    match,      \* how it looks for its order: by "id" or by "terms"
    cursors,    \* what the Gateway does with queryParamStr
    market,     \* of each intent
    rows,       \* the Gateway's entrusts in order; the index is the id
    wire,       \* order requests on their way to the Gateway
    replies,    \* answers on their way back
    login,      \* whether the Gateway knows the session
    desk,       \* what the caller knows of each intent
    known,      \* the entrust id it holds, or NoId
    tries, walk,
    excuse      \* history: why an "absent" of the intent was wrong

vars == <<layer, match, cursors, market, rows, wire, replies, login, desk,
          known, tries, walk, excuse>>
fixed == <<layer, match, cursors, market>>

NoId == 0
NoWalk == [for |-> Other, reader |-> "none", cursor |-> 0, seen |-> {}, pages |-> 0,
           present |-> {}, done |-> FALSE]

Ids == DOMAIN rows
OrdersOf(i) == {n \in Ids : rows[n].intent = i}
RequestsOf(i) == {m \in wire : m.intent = i}

\* The order of an intent, and a request naming the order the caller knows.
OrderOf(i) ==
    [account |-> "acct", market |-> market[i], dtype |-> "HKStock", stockCode |-> "code",
     amount |-> Lots(1), price |-> 10 * Unit, side |-> "1", type |-> "3", session |-> "",
     clock |-> 600, tif |-> "", iceberg |-> Absent, validDays |-> Absent, condValue |-> ""]
AmendOf(i) ==
    [account |-> "acct", market |-> market[i], stockCode |-> "code",
     entrustId |-> IF known[i] = NoId THEN "" ELSE "id"]

Place(i) == IF layer = "vnext" THEN Entrust(OrderOf(i)) ELSE trade_Entrust(OrderOf(i))
Withdraw(i) ==
    IF layer = "vnext" THEN CancelEntrust(AmendOf(i)) ELSE trade_CancelEntrust(AmendOf(i))

-----------------------------------------------------------------------------
(* Placing an order                                                        *)

\* A first submission, or another one after the caller found the order absent
\* or the Gateway refused it.
Submit(i) ==
    /\ desk[i] \in {"idle", "absent", "refused"}
    /\ tries[i] < MaxTries
    /\ Accepted(Place(i))
    /\ tries' = [tries EXCEPT ![i] = @ + 1]
    /\ wire' = wire \union {[intent |-> i, try |-> tries[i] + 1,
                             exchange |-> Place(i).body.exchangeType]}
    /\ desk' = [desk EXCEPT ![i] = "waiting"]
    /\ UNCHANGED <<fixed, rows, replies, login, known, walk, excuse>>

\* The Gateway books a request, whenever it arrives; nobody hears the answer
\* to one that was given up.
Book(m) ==
    /\ login /\ Len(rows) < MaxRows
    /\ rows' = Append(rows, [intent |-> m.intent, exchange |-> m.exchange, live |-> TRUE])
    /\ wire' = wire \ {m}
    /\ replies' = IF desk[m.intent] = "waiting" /\ tries[m.intent] = m.try
                  THEN replies \union {[intent |-> m.intent, id |-> Len(rows) + 1]} ELSE replies
    /\ UNCHANGED <<fixed, login, desk, known, tries, walk, excuse>>

\* The v-next reply struct reads the key entrustId, the Gateway answers under
\* data: the id is lost.  The released layer reads data.
entrustWireResponse(reply) == NoId
trade_CommonStringResponse(reply) == reply.id

Answered(i, reply) ==
    /\ desk[i] = "waiting" /\ reply.intent = i
    /\ known' = [known EXCEPT ![i] = IF layer = "vnext" THEN entrustWireResponse(reply)
                                     ELSE trade_CommonStringResponse(reply)]
    /\ desk' = [desk EXCEPT ![i] = "placed"]
    /\ replies' = replies \ {reply}
    /\ UNCHANGED <<fixed, rows, wire, login, tries, walk, excuse>>

\* Mutant: the request is sent once more when no answer came.
NoAnswerResends(i) ==
    /\ desk[i] = "waiting" /\ tries[i] < MaxTries
    /\ tries' = [tries EXCEPT ![i] = @ + 1]
    /\ wire' = wire \union {[intent |-> i, try |-> tries[i] + 1,
                             exchange |-> Place(i).body.exchangeType]}
    /\ UNCHANGED <<fixed, rows, replies, login, desk, known, walk, excuse>>

\* No answer in time, because request or reply is late or lost: the error goes
\* to the caller and nothing is repeated.
NoAnswer(i) ==
    /\ desk[i] = "waiting"
    /\ desk' = [desk EXCEPT ![i] = "ambiguous"]
    /\ replies' = {r \in replies : r.intent # i}
    /\ UNCHANGED <<fixed, rows, wire, login, known, tries, walk, excuse>>

\* The Gateway does not know the session.  The released layer's call logs in
\* again, best effort, and still returns the refusal; v-next only returns it.
call_Refused(m) ==
    /\ ~login
    /\ wire' = wire \ {m}
    /\ desk' = [desk EXCEPT ![m.intent] =
                   IF @ = "waiting" /\ m.try = tries[m.intent] THEN "refused" ELSE @]
    /\ login' \in IF layer = "released" THEN BOOLEAN ELSE {FALSE}
    /\ UNCHANGED <<fixed, rows, replies, known, tries, walk, excuse>>

Lose(m) ==
    /\ wire' = wire \ {m}
    /\ UNCHANGED <<fixed, rows, replies, login, desk, known, tries, walk, excuse>>

\* A session ends and is renewed outside the trading calls; it matters while a
\* request is on its way.
SessionChanges ==
    /\ wire # {}
    /\ login' = ~login
    /\ UNCHANGED <<fixed, rows, wire, replies, desk, known, tries, walk, excuse>>

OtherOrder ==
    /\ Len(rows) < MaxRows
    /\ \E i \in Intents :
        rows' = Append(rows, [intent |-> Other, exchange |-> ExchangeOf(market[i]), live |-> TRUE])
    /\ UNCHANGED <<fixed, wire, replies, login, desk, known, tries, walk, excuse>>

\* The Gateway cancels an order that is in the book the request names, and
\* knows no such order otherwise.
Cancel(i) ==
    /\ desk[i] = "placed"
    /\ Accepted(Withdraw(i))
    /\ LET found == rows[known[i]].exchange = Withdraw(i).body.exchangeType
       IN  /\ rows' = IF found THEN [rows EXCEPT ![known[i]].live = FALSE] ELSE rows
           /\ desk' = [desk EXCEPT ![i] = IF found THEN "cancelled" ELSE "unknown order"]
    /\ UNCHANGED <<fixed, wire, replies, login, known, tries, walk, excuse>>

-----------------------------------------------------------------------------
(* Reading lists                                                           *)

\* The entrust list is filtered by exchange; every order posts a journal row.
Listed(w) ==
    IF w.for = Other THEN Ids ELSE {n \in Ids : rows[n].exchange = ExchangeOf(market[w.for])}

FirstRows(S) == {n \in S : Cardinality({k \in S : k < n}) < PageSize}

\* One page of the Gateway behind a cursor.
PageAt(w) ==
    LET behind == {n \in Listed(w) : n > w.cursor}
    IN  IF cursors = "repeat" \/ (cursors = "wrap" /\ behind = {})
        THEN FirstRows(Listed(w)) ELSE FirstRows(behind)

\* The queryParamStr of the last row, empty without rows.
NextCursor(page) == IF page = {} THEN 0 ELSE Max(page)

\* Mutants: a full page taken for the last; no test that the cursor moved.
PaginateStopsEarly(page, next, cursor) == Cardinality(page) <= PageSize
PaginateStopsShort(page, next, cursor) == Cardinality(page) < PageSize

Paginate(page, next, cursor) == Cardinality(page) < PageSize \/ next = cursor

walkFundJourPages(page, next, cursor, pages) ==
    page = {} \/ next = cursor \/ pages = maxPages

\* The v-next entrust and deliver lists ask for one page and return it.
Stops(w, page, next) ==
    CASE w.reader = "first page" -> TRUE
      [] w.reader = "Paginate" -> Paginate(page, next, w.cursor)
      [] w.reader = "walkFundJourPages" ->
            walkFundJourPages(page, next, w.cursor, w.pages + 1)

Start(for, reader) ==
    /\ walk = NoWalk
    /\ walk' = [NoWalk EXCEPT !.for = for, !.reader = reader,
                !.present = Listed([NoWalk EXCEPT !.for = for])]
    /\ UNCHANGED <<fixed, rows, wire, replies, login, desk, known, tries, excuse>>

\* Reconciling an unanswered order, or looking up the id of an answered one.
ReadEntrusts(i) ==
    /\ desk[i] = "ambiguous" \/ (desk[i] = "placed" /\ known[i] = NoId)
    /\ Start(i, IF layer = "vnext" THEN "first page" ELSE "Paginate")

ReadJournal == Start(Other, IF layer = "vnext" THEN "walkFundJourPages" ELSE "Paginate")

Fetch ==
    /\ walk # NoWalk /\ ~walk.done
    /\ LET page == PageAt(walk)
           next == NextCursor(page)
       IN  walk' = [walk EXCEPT !.seen = @ \union page, !.pages = Min({@ + 1, maxPages}),
                    !.cursor = IF Stops(walk, page, next) THEN @ ELSE next,
                    !.done = Stops(walk, page, next)]
    /\ UNCHANGED <<fixed, rows, wire, replies, login, desk, known, tries, excuse>>

\* A fetch fails or the context ends: the rows so far come with an error, and
\* the caller is as wise as before.
FetchFails ==
    /\ walk # NoWalk /\ ~walk.done
    /\ walk' = NoWalk
    /\ UNCHANGED <<fixed, rows, wire, replies, login, desk, known, tries, excuse>>

\* Which rows the caller takes for its own: docs/CONTRIBUTING.md compares ids,
\* but an order that was not answered has none.
Mine(i) == {n \in walk.seen : rows[n].intent = i /\ (match = "id" => n = known[i])}

\* Why an order may exist although the list did not show it.
Excuses(i) ==
    {e \in {"late", "no id", "one page", "cursor"} :
        CASE e = "late" -> RequestsOf(i) # {} \/ OrdersOf(i) \ walk.present # {}
          [] e = "no id" -> match = "id"
          [] e = "one page" -> walk.reader = "first page" /\ Cardinality(walk.present) > PageSize
          [] e = "cursor" -> cursors = "repeat"}

Conclude(i) ==
    /\ walk.for = i /\ walk.done
    /\ IF Mine(i) # {}
       THEN /\ known' = [known EXCEPT ![i] = Max(Mine(i))]
            /\ desk' = [desk EXCEPT ![i] = "placed"]
            /\ UNCHANGED excuse
       ELSE /\ desk' = [desk EXCEPT ![i] = IF @ = "ambiguous" THEN "absent" ELSE @]
            /\ excuse' = [excuse EXCEPT ![i] =
                   IF desk[i] = "ambiguous" THEN @ \union Excuses(i) ELSE @]
            /\ UNCHANGED known
    /\ walk' = NoWalk
    /\ UNCHANGED <<fixed, rows, wire, replies, login, tries>>

PutAway ==
    /\ walk.for = Other /\ walk.done
    /\ walk' = NoWalk
    /\ UNCHANGED <<fixed, rows, wire, replies, login, desk, known, tries, excuse>>

-----------------------------------------------------------------------------
Init ==
    /\ layer \in {"vnext", "released"}
    /\ match \in {"id", "terms"}
    /\ cursors \in {"advance", "repeat", "wrap"}
    /\ market \in [Intents -> {"HK", "US"}]
    /\ rows = << >> /\ wire = {} /\ replies = {} /\ login = TRUE
    /\ desk = [i \in Intents |-> "idle"]
    /\ known = [i \in Intents |-> NoId]
    /\ tries = [i \in Intents |-> 0]
    /\ walk = NoWalk
    /\ excuse = [i \in Intents |-> {}]

Next ==
    \/ \E i \in Intents :
        \/ Submit(i) \/ NoAnswer(i) \/ Cancel(i) \/ ReadEntrusts(i) \/ Conclude(i)
        \/ \E r \in replies : Answered(i, r)
    \/ \E m \in wire : Book(m) \/ call_Refused(m) \/ Lose(m)
    \/ SessionChanges \/ OtherOrder
    \/ ReadJournal \/ Fetch \/ FetchFails \/ PutAway

Spec == Init /\ [][Next]_vars

\* A walk runs in the caller's goroutine and goes on as long as pages come.
FairSpec == Spec /\ WF_vars(Fetch)

-----------------------------------------------------------------------------
\* One order per intent: reconciling through the entrust list before another
\* submission (ADR 0003) never places an order twice, unless the request was
\* still on its way, the caller compares ids it does not have, the v-next list
\* is longer than the one page it returns, or the Gateway ignores the cursor.
OneOrderPerIntent ==
    \A i \in Intents : excuse[i] = {}
        => Cardinality(OrdersOf(i)) + Cardinality(RequestsOf(i)) <= 1

\* Once the caller has an order cancelled nothing of that intent works on in
\* the market and nothing is on its way there (same exceptions): the cancel
\* named the order of the intent and no second one exists.
CancelledIsGone ==
    \A i \in Intents : desk[i] = "cancelled" /\ excuse[i] = {}
        => RequestsOf(i) = {} /\ \A n \in OrdersOf(i) : ~rows[n].live

\* A walk that ended by itself over a Gateway that honours the cursor has every
\* row that was there when it started, whatever was added meanwhile; only the
\* v-next lists' single page and walkFundJourPages' bound cut it short.
WalkIsComplete ==
    walk.done /\ cursors # "repeat"
        => \/ walk.present \subseteq walk.seen
           \/ walk.reader = "first page" /\ Cardinality(walk.present) > PageSize
           \/ walk.reader = "walkFundJourPages" /\ walk.pages = maxPages

\* Every walk ends, also over a Gateway that ignores queryParamStr; only
\* Paginate (trade/pagination.go) follows cursors that come round for ever.
WalksEnd ==
    (walk # NoWalk /\ ~walk.done /\ ~(walk.reader = "Paginate" /\ cursors = "wrap"))
        ~> (walk = NoWalk \/ walk.done)

\* An order the Gateway has acknowledged to the caller can be named by the
\* caller: Entrust returns the identifier of the reply's data (docs/SPEC.md).
EntrustReturnsTheId ==
    \A i \in Intents : desk[i] = "placed" => known[i] # NoId

=============================================================================
