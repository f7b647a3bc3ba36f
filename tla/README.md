# Verification of hstongapi4go

hstongapi4go is a Go client for a brokerage's local Gateway.  Requests travel over HTTP, updates
come back over one TCP push connection.  The repository holds two layers over the same core: the
released one (`pkg/hstong`) and its successor (`pkg/services` with `pkg/domain`, called v-next).
This directory models the stateful parts of both, and their request building, reply mapping and
push decoding, in TLA+, checks them with TLC on small instances, and proves the central safety
properties with TLAPS for every value of the constants.

Every definition is translated from the code; `PROJECT.json` names the lines of each one under
`map`.  A definition that stands for a whole declaration is mapped to all its lines, the doc comment
included; one that stands for a step inside a function to the lines of that step.  Gateway, clock
and application are marked external and are modelled from how the code uses them.

## The system

| part | code | state | operations |
|---|---|---|---|
| circuit breaker | `internal/resilience/breaker.go` | state, failures, probes, openedAt | Allow, OnSuccess, OnFailure |
| rate limiter, retry | `internal/resilience/{ratelimit,retry}.go` | token buckets | Wait, WaitEndpoint, Policy.Do |
| request path | `client/client.go`, `internal/transport` | closed flag | Do, execute, Close |
| session service | `pkg/services/session.go`, `internal/auth` | stored session, login gate, inner flight | Login, Logout |
| session manager | `pkg/hstong/session.go`, `internal/session` | login state, loginErr, keep-alive loop | Login, Logout, EnsureLoggedIn, ReLogin, Start/StopKeepAlive |
| push client | `internal/push/client.go` | connection, dispatchers, error stream | Connect, Run, SubscribeTypes, Close |
| push adapter | `pkg/transport/push.go` | hooks, error stream | Connect, Run, Report, Close |
| push orchestration | `pkg/services/push.go` | market registry, order list, delivery queues, unrouted ids, error stream | Subscribe, SubscribeOrders, Cancel, reconnect hook, dispatch, Close |
| stream client | `pkg/hstong/stream` | subscriptions, Run loop | Connect, Subscribe, SubscribeTrade, Cancel, reconnect, Close |
| stateless services | `pkg/services/{trading,futures,algo,market,account}.go`, `pkg/hstong/{trade,future,algo,market}` | none | validated request and reply mapping, cursor walks |
| domain values | `pkg/domain`, `pkg/types`, `internal/errs` | none | ticks, prices, error classification |
| push codecs | `internal/push/{frame,decode,verify,notify_normalize}.go` | none | frame, verify, decode, normalise |
| observers, crypto | `internal/{logging,metrics,otel,crypto}`, `gen/` | none that a decision reads | - |

How they interact.  A service call goes through the request path: the breaker admits it, the
limiter delays it, the retry policy repeats it if its path is no mutation, the transport sends it,
and the breaker hears of its outcome.  The session service decides whether such a call is needed
at all.  A push frame goes from the push client's read loop to a dispatcher of its type, through
the adapter to the orchestration, which looks up the subscriptions of its instrument and queues it
on their channels.  A reconnect runs the orchestration's hook on the push client's Run goroutine.
Errors with no caller to return to travel up through three error streams.

What is hard about it: callers, dispatchers, the reconnect hook and Close all work on the
orchestration's registry; two mutexes (`subMu` around whole transactions, `mu` around lookups)
share it; HTTP requests are made inside and after critical sections; entries read before a request
are used after it; login callers coalesce at two levels; breaker outcomes arrive long after the
state that admitted their call.

## Modules

Each module's header says what it abstracts from.

**Breaker** - one breaker and its concurrent callers.  Each method is one step (the mutex); a call
is in flight between Allow and its report.  `call` labels it as an observer would ("normal",
"probe", "stale"); the breaker does not know.  `elapsed` is `now() - openedAt`, the only use of the
clock.  It has no run of its own: RequestPath extends it and drives it.

**RequestPath** - `client.Do` and `execute` with breaker, retry policy and limiter installed. A
call is admitted ("admit"), enters the retry loop ("loop"), waits at the global and at the
endpoint's bucket ("global", "endpoint"), has its tokens ("send"), is on the wire ("reply"), backs
off or reports ("backoff", "report"). `Do`, `Admit`/`Refused`, `Attempt`, `TakeGlobal`,
`TakeEndpoint`, `Transmit`/`TransmitFails`, `Reply`, `Backoff` and `Report` are those steps;
`WaitCancelled` is a context that ends at a bucket. A bucket is a counter of whole tokens. The last
token and the request are two steps: anything may happen between `bucket.wait` and `transport.Do`.

**RequestWire** - RequestPath with an observer on the wire. `debt` is no state of the program but the
observer's leaky bucket of the limited endpoint's requests, the reference definition the limiter is
compared with. It has no run: with `debt` the run of two callers has 870,000 states, and what it says
is proved.

**MarketPush** - the market registry of the orchestration.  `entries`, `esubs`, `ekey` are
`o.entries` and the `pushEntry` objects (identities, since the reconnect hook keeps pointers while
`subMu` is free), `routed` the content of `o.byKey`, `chan` the Updates channels, `gw` the keys the
Gateway pushes.  `Subscribe`/`SubscribeLocked`/`SubscribeReply` are the unlocked check, the
critical section up to the request, and the reply with `subMu` held; `Cancel`/`CancelShutdown`/
`CancelReply` the critical section, the channel's close and the late unsubscribe; `Reconnect` to
`KillReply` the hook; `CloseFlag`/`CloseDrain`/`CloseShutdown` Close.  `refused` and `raced` are
history variables.  Security lists and topics are one opaque key; which update reaches which
subscription is PushFrames' matter.

**OrderPush** - the order half of the same object: `orders`, `tradeOn`, `tradeSubs`, with the same
callers, hook and Close.  It is a module of its own because the two halves share only `subMu`,
`closed` and the hook's goroutine, all of which act as delays for the other half.

**PushDelivery** - the bounded Updates channel of one subscription, one step per select of
`deliver`, so that the application can receive between them.  It has no run of its own.

**PushPipeline** - extends PushDelivery by what lies before it in `internal/push/client.go`:
`dispatch` puts a notification into the bounded channel of its type (send, evict, resend, one step
each), the dispatcher goroutine takes it (`Take`) and calls the handler (`Handle`), `Close` takes
the dispatchers out of the map and stops them. `frameOf` ties updates to notifications.

**OrderedDelivery** - the abstract specification of that way: notifications are numbered as they are
read, and the application receives ever later ones. PushPipeline instantiates it with
`sent <- frames` and `last <-` the notification behind the last update received; its specification
is the property `DeliversInOrder`.

**PushClient** - the push client's connection: Run (`Top`, `Dialled`, `Store`, `readLoop`, `Broken`,
`sleepCtx`), its watcher, `Close` in its two sections (`CloseFlag`, `CloseSweep`). It has no run of
its own: StreamClient extends it and drives it.

**StreamClient** - the released stream client: `Connect` as the mutex section, the push client's own
Connect in two steps, and the start of the goroutines; `Close`/`shutdown`; Subscribe, SubscribeTrade
and Cancel before, at and after their requests; `onReconnect` with its copy and the two
restorations. `overlap`, `raced`, `lost` and `crossed` are history variables that name the races the
properties except.

**ErrorStream** - the three drop-oldest error channels, which are written alike and differ in three
ways the module keeps: who checks the closed flag, who counts drops, whether Close joins a
forwarder.  `stream` says which of the three a behaviour is about.

**UnroutedReport** - extends ErrorStream by `recordUnrouted`: the count, the bounded set of ids
already reported, and the report that follows outside the lock, on a stream other reporters use too.

**SessionService** - Login and Logout over the login gate, internal/auth's own flight and the
store.  Accounts do not interact, so there is one.  `lastWord` and `crossed` are history variables:
what the Gateway last said about the account, and whether a login's and a Logout's replies were both
under way to the store.

**SessionManager** - the released layer's session manager.  Each critical section of `s.mu` is one
step; a goroutine in `cond.Wait` is "wait", one that a broadcast has woken and that does not have
the mutex yet is "woken".  The keep-alive loops are goroutines like the callers, `ka` is the
registration under `kaMu`.  `heard` and `cut` are history variables: the outcomes of the logins that
ended during a wait, and whether a Logout was acknowledged amid a login or its waiters.

**OrderDesk** - a caller that places orders, gets no answer, reconciles through the entrust list and
submits again or cancels, with either layer. Requests and replies are delayed or lost; the Gateway's
cursors advance, are ignored, or come round. `Paginate` and `walkFundJourPages` are the two cursor
walks, one `Fetch` per page. `excuse` is a history variable: why an "absent" was wrong.

**WireValues, DomainValues** - what the request builders work on. Text is one of the few kinds a
validator can tell apart, a call is the list of its checks in order and the body it sends; a decimal
is a number of ten-thousandths, exact as the code's decimals are.

**FuturesCalls, AlgoCalls, CashCalls, AccountCalls** - every request of both layers as an operator
from the caller's fields to a call. v-next operators bear the names of `pkg/services`; released ones
begin with the package (`future_`, `algo_`, `trade_`, `market_`).

**ReplyMapping** - the v-next mappers of reply rows: which decimal becomes which value in which
unit, and which constructors panic.

**PushFrames** - one push frame from header to subscriber: `DecodeHeader`, `ReadFrame`,
`verifyFrame`, `decodeNotification`, one turn of `readLoop`, the normalisation to an event, the
routing keys, `dispatchMarket` and `dispatchTrade`, and the released client's
`acceptsType`/`deliver`.  The bounded queue between the read loop and the handlers is PushPipeline's.

**RequestAudit** - drives these operators: a caller picks an operation, changes up to `MaxEdits` of
the fields of a request both layers take, and submits it to both; the reply's row is mapped; after a
market Subscribe a frame comes in with two market subscriptions and up to two order subscriptions
live, and both layers route it.

**RequestPathProofs** (with the breaker's), **MarketPushProofs, OrderPushProofs** (with the error
streams'), **ServicesProofs** (of SessionService and PushPipeline), **ReleasedProofs** (of
SessionManager and StreamClient), **OrderDeskProofs, RequestProofs** and **ReplyProofs** (of the two
halves of RequestAudit) - the theorems.

## Runs

| run | expects | shows |
|---|---|---|
| RequestPath | pass | a mutation is sent at most once; the breaker hears once of every call it admitted, leaks no probe slot and recovers; calls drain after Close |
| MarketPush | pass | refused keys are closed, coalescing loses no push but for one race, Close quiesces with every subscription closed |
| OrderPush | pass | the counter never hides the last Cancel; Close ends every channel |
| PushPipeline | pass | read loop to application is an ordered delivery (refinement); losses are counted, the newest update survives, out-of-order counting is exact |
| UnroutedReport | pass | no send on a closed channel (two streams), exact drop count, no unrouted id escapes notice |
| SessionService | pass | one login at a time, none wasted, the store follows the Gateway's last word unless a login and a Logout cross, joiners return |
| SessionManager | pass | logins do not overlap and waiters hear an outcome of their wait, unless a Logout cut in; no keep-alive loop is orphaned; nobody waits for ever |
| StreamClient | pass | one Run, no connection left open, listed subscriptions are fed, Close comes back - each but for the races named in the property |
| OrderDesk | pass | reconciling before resubmitting keeps one order per intent, a cancelled intent is gone, walks are complete and end - each but for the conditions named |
| RequestAudit | pass | v-next lets through no more than the released layer and sends the same order; Hong Kong orders are on the grid; no amount is invented; the read loop and the routing lose no frame but of the two kinds named; updates reach who asked |
| OrderDeskLostId | violation | an accepted v-next order comes back without its id |
| RequestAuditMixed | violation | a subscription receives updates of a type it did not ask for |

Bounds. Two callers and three subscriptions give Subscribe against Cancel on one key with a third,
older or newer, subscription, which is what coalescing needs; one reconnect reaches the whole hook,
and OrderPush takes two so that a second hook meets the first one's leftovers. One key suffices in
MarketPush because keys share nothing but `subMu` and the hook's loop. Buffers of 2 with 5 items
fill, overflow and drain again; wire times 0..2 give zero, equal, earlier and later stamps. Three
login callers are a leader, a joiner and a Logout or a late reader of the store. Two calls in the
request path are a probe and a call admitted before the breaker opened, or two calls after one
token (bursts of 1); two attempts make a retry; `HalfOpenProbes = 1` is what NewBreaker sets, so
that a second probe is refused. SessionManager's two callers and two loops are up to four
goroutines at one condition variable, and a loop that ends while its successor is registered. The
failure counter saturates at `FailureCap`, above which no method tells counts apart.

StreamClient: two Connects, two connections (one that drops and its successor) and two subscriptions
of one kind, since market and trade subscriptions share only the connection; an application that
calls Connect twice does not subscribe, so that overlapping Connects are explored with Close and drops
but without subscriptions. The run has no room for a third connection, which two overlapping Connects
need to replace one another's; with `MaxConns = 3` all four properties hold too (some 640,000 states,
three minutes), and the theorems cover the three safety properties for every number. OrderDesk: one intent submitted twice, four rows in pages of two (a full
page, a full last page, a short one, a row added during the walk) and two pages for the walk that is
bounded; another client's orders fill the list. PushPipeline: both buffers 2 and five notifications,
so that each overflows and drains again. RequestAudit: three changed fields, which is what two checks
and a default between them take; every field's set holds each kind the validators tell apart, with the
values next to every limit. Frames vary in instrument, in type and payload, in one header field, or
in one number; two subscriptions are an addressee and a bystander, or two spellings.

Fairness. RequestPath: time passes, exchanges end by reply or timeout, callers of an open client
keep asking. A wait for a token is only weakly fair, because the limiter is no queue and a stream
of other calls may starve a sleeper; `CloseDrains` and `RecoversUnlessClosed` need no more, since
few calls compete once the client is closed or the breaker open. MarketPush, OrderPush,
SessionService: a goroutine that has something to do does it; requests end by reply or timeout; a
mutex that is free is eventually granted (Go's mutexes do not starve). SessionManager: the same,
with strong fairness for two steps that other goroutines can disable again: taking `s.mu` after a
broadcast while logins keep starting, and the loop's select choosing a context that is done over a
ticker. StreamClient: Run loops and their watchers go on, dials, sleeps and HTTP calls return (a
context or their own time-out sees to it), shutdown runs to its end. OrderDesk: the caller fetches the
next page as long as its walk goes on. Outside RequestPath nothing is assumed about new calls,
reconnects or Close being made.

`CHECK_DEADLOCK FALSE` stands where a closed object really stops: the push modules, the stream client
and the request path. In the other modules there is always a next call.

## Disagreements between comments and code

Two are findings with a run each (see `PROJECT.json`).

Five more are stated as properties of their modules, which the code violates; add the property to the
named configuration to see the counterexample:

| property | add to | what happens |
|---|---|---|
| `NoSilentSubscription` | MarketPush.cfg, INVARIANT | Cancel drops the entry under `subMu` and sends its unsubscribe after unlocking (`push.go:1215`); a Subscribe of the key in between is turned off and stays live. `push.go:63-64` calls that the single worst outcome |
| `LookupExcludesWriters` | MarketPush.cfg, PROPERTY | `byKey` is read under `mu` (`push.go:981`) and written under `subMu` only; `:448-450` says otherwise |
| `LastMeansLast` | OrderPush.cfg, PROPERTY | two Cancels of one subscription both count (`push.go:1391`), and the push goes off under another; `:1375-1376` says "It is idempotent" |
| `LateReportIsDropped` | UnroutedReport.cfg, INVARIANT | the adapter's `Report` after Close sends on the closed channel and panics (`transport/push.go:298`); `:393` says it is dropped |
| `LogoutClearsLocal` | SessionService.cfg, INVARIANT | a Logout between a login's reply and its SaveToken leaves the ended session stored (`session.go:556`); `:496-497` says it is cleared |

Others met while modelling:

- `retry.go` says of Jitter that it adds "a random duration in [0, delay)"; `Delay` returns a value
  between half the delay and the delay.
- `execute` reports every error to the breaker, the caller's own cancellation included, so impatient
  callers can open it.  No comment says otherwise.
- `breaker.go:121-123` says a stale call cannot close a freshly opened breaker; it can once the
  breaker is half-open.
- `push.go:428-430` says every Updates channel is closed by Cancel, a refused re-subscribe or
  Close.  `killEntry` deletes by key (`:936`): if the entry was cancelled and the key subscribed
  anew while the hook waited, the new entry goes and its subscription is closed by nobody.
- `push.go:943-946` argues that `doomed` is never empty; an entry snapshotted and then cancelled
  makes it so.
- `dispatchMarket` strips the market suffix from codes, so 700.HK and 700.SZ share a bucket as well;
  the released client filters by type and not by instrument.
- `PushUpdate`'s doc says an update that carried no payload is delivered as a SystemEvent; an Any
  without bytes is delivered as an event of zeros.  A body of zero bytes decodes to a SystemEvent
  for every order subscription, and an unknown type without a payload is dropped silently.
- `push.go:1119-1120`: Dropped also counts deliveries for which the application made room itself.
- `push.go:508-510` promises one report per id; past the cap an id is reported every time, as
  `:46-49` says.
- `pkg/hstong/session.go:188`: Logout decides on an unlocked read and applies its reply whatever has
  happened since.  Landing in the middle of a login it sets LoggedOut, a second login may start
  beside the first, and a waiter returns nil though nobody is logged in; `internal/session/state.go`
  says "LoggingIn means exactly one login attempt is in flight", and EnsureLoggedIn that "on success
  all callers return nil".  `OneLoginInFlight` and `FollowerHearsAnOutcome` show that nothing else
  leads there.
- Login's GoDoc (`pkg/services/session.go:439-441`) says of a refused credential that "A session the
  service held for this account is discarded"; `sessionUnusable`'s (`:721-725`) that "there is nothing to
  discard", and the code keeps it. `StoreFollowsTheGateway` leaves this case open.
- `services/trading_validation_matrix_test.go:302-304,342-358` calls the three Hong Kong session windows
  disjoint, "at every minute of every day".  Both ends of each are in (`validateSessionWindow`), so 09:30 is
  of sessions 1 and 2 and 12:00 of sessions 2 and 3; run in one of those two minutes the test fails.
  `HKOrdersAreOnGrid` states the windows with both ends.
- `dispatchTrade`'s comment (`push.go:1009-1014`) promises "no silent loss"; a delivery that arrives while
  no order subscription is live is neither counted nor reported (`:1015-1024`), whereas a market update is.
  The dispatch queue before the handlers (`internal/push/client.go:513-524`) evicts its oldest notification
  without a count too, deliveries included.  `EveryFrameIsAccountedFor` names the first and is about a frame
  that came through the queue.
- The limiter bounds tokens, not requests: calls that have their token may be held up and send together, so
  an endpoint sees up to one request more than its burst for each caller (`EndpointLimitHolds`; two callers
  and bursts of 1 do reach a debt of 3).
- `market.go:470-471` says that "a bare "1e-07" panics in domain.MustNewPrice"; the decimal library reads
  exponents (`NewFromString`), and so does `MustParse`.
- Stream client.  Two Connects under way at once start two Runs, keep one cancel, and a failing one
  cancels the other's context, so that Close may wait for ever; a Run may also replace a connection
  Connect has just stored, which nobody then closes (seen with `MaxConns = 3` if `NothingLeftOpen` is
  stated without its `overlap`).  A dial that finishes after Close
  stores a connection nobody closes.  A failed restoration of the order push is told to those listed;
  whoever subscribes later finds `tradeSubs` above zero, asks for nothing and gets nothing.  A
  subscription answered before a drop and registered after `onReconnect`'s copy is not restored.
  Cancelling one of two market subscriptions to a security silences the other.
- `docs/CONTRIBUTING.md:163-185` reconciles an unanswered order by its entrust id, which such an order
  does not have, and ends "Not found anywhere; safe to retry".  Comparing terms instead, `OneOrderPerIntent`
  leaves three ways to a double order: a request still under way, a v-next list longer than its one
  page, a Gateway that ignores the cursor.
- `Paginate` bounds nothing: cursors that come round with a period above one are followed for ever.
  The v-next walk stops after `maxPages`.
- The v-next cancel and change of an order always name the Hong Kong book (K), a US order's included; the
  change also drops condValue, entrustType and validDays.
- v-next algo and conditional-order lists take pages of up to 500 rows; `docs/SPEC.md:1007` allows fewer than 100.
- v-next accepts zero and negative Hong Kong quantities that are whole lots, and refuses odd-lot orders
  by their lot check.  US orders pass unchecked.
- A decimal missing from a cash or account row panics in the mapper and nothing recovers it; futures and
  algo rows read zero.  `services/futures.go:964-968` says that "a read must not crash the caller's process" and
  calls it "the layer's known F2 defect"; `trading_happy_test.go:1198-1205` reports it and declines to pin
  it.  `NoInventedAmounts` neither asks for the panic nor forbids it.  A nil row in an order book or broker
  list panics too.
- Turnover of US fills and amounts of USD futures contracts are labelled HKD.
- The futures GoDoc names sides 1 to 4; both layers accept 1 and 2.
- `trade/push.go:31,39` says its calls are never retried; their routes are of the query class.

Where the two layers differ in what they let through, v-next is the stricter for algo orders (account,
blank codes, calendar dates, times, negative tuning, percentages) except for a zero price and an absent
page, and for futures (account, order type, validity, options, with "0" sent for an absent one).  For
cash orders it is stricter for Hong Kong stocks (lot, tick, session, type, validity) and wider
elsewhere, so `NeverLooser` leaves cash out; the list reads ignore cursor and count.

## Proofs

All theorems are for any finite set of callers, any pool of subscriptions or attempts and any
threshold, cooldown, probe count, buffer or page size satisfying the modules' assumptions.  Every
safety property that a run checks has one.

*Breaker.* `ClosedBelowThreshold` and `ProbeSlotsAreInFlight` are not inductive alone: a stale call
that fails must be known not to hold a slot, and a probe in flight must imply half-open. The
invariant adds that probes exist only while half-open. `OpenForCooldown` is then a property of each
action.

*RequestPath.* `PathRefinesBreaker`: every step is a step of Breaker or leaves its variables alone,
so the theorems above hold of the breaker inside the path. `SendsWithinBudget` needs `Budget`: an
attempt under way has not sent yet, and a call that may loop again is a query with attempts left.
Together with the breaker's invariant and `AdmittedUntilReported` it is inductive (`PathIInv`).
`WireWithinLimit`, of RequestWire, needs an account of every token: those in the bucket, those of
calls that have not sent yet (`Holding`) and the requests not yet drained stay within the burst and
one for each caller together (`TokensOrDebt`), though cancelled calls lose tokens. `WireIsThePath`: the
observer adds no behaviour.

*OrderPush.*  `IInv` strengthens the four checked invariants by: listed subscriptions are open
(`ListedAreOpen`); a caller whose request is out holds `subMu` (`RequestHoldsLock`), so nothing is
drained under it; `doomed` sets are non-empty only while a shutdown is under way
(`DoomedOnlyInShutdown`); what is doomed is no longer listed (`OwedIsUnlisted`).  The counter
argument needs cardinalities of finite sets: `CountNotAhead` says `tradeSubs` never exceeds the
list, which survives a double Cancel because removing an element already gone leaves the list's
size while the counter falls.  `CloseLeavesNothingOpen` follows from ownership and an empty list.

*SessionService.*  `IInv` = types, `SingleLeader`, `NoRedundantRequest`, `RejectedSessionIsGone` and
`FlightHasLeader` (the inner flight is taken only while some leader is on the wire), from which
`InnerFlightIsFree` follows.  `StoreFollowsTheGateway` holds between calls only; `WordIsStored` says
what holds inside one: a reply that the store does not show yet has a caller about to apply it, and
while nothing crossed no other caller is about to undo it.

*PushPipeline.*  That the application sees an ordered delivery is not inductive: it depends on what is in
the two queues and in the hands between them.  `PipeInv` says that along the way from the read loop to
the application notification numbers only fall: each queue climbs (`Climbs`), everything in the dispatcher
channel is newer than what the handler holds and than every notification behind an update (`DispInv`),
`frameOf` climbs (`FrameInv`), and the Updates channel lies above what was received and, during a
delivery, below the update in hand (`QueueInv`).  Evicting keeps a queue climbing; what is sent is newer
than all in it.  `PipelineImplementsOrder` then maps the application's receive to `Receive`, a frame read
to `Arrive`, and every other step to a stutter, for every buffer size.  `NewestIsNeverLost` needs, beside
it, that the resend finds room: only the application touches the queue between eviction and resend.
`LossIsCounted` holds between deliveries only; `LossInv` says what holds inside one: the updates that
are missing are those counted and, between an eviction and its count, the one evicted.
`OutOfOrderIsExact` needs `StampInv`: `lastWire` is the latest stamp accepted so far (a zero stamp
leaves it alone), so that one comparison decides whether an earlier update was stamped later.

*SessionManager.*  `OneLoginInFlight` is proved without counting (`InFlight`: LoggingIn has one
requester, any other state none).  `FollowerHearsAnOutcome` becomes inductive when it is stated of
everyone woken, whatever the method and the state (`WokenHeard`): only the end of a login changes
`loginErr` while somebody waits, and it adds its outcome to what each of them heard; a Logout that
does so sets `cut`.  `NoOrphanLoop` needs that a StopKeepAlive under way has a target and that loops
only ever ensure the login.

*StreamClient.*  `Alone`: without overlapping Connects a call is under way only before `started`, a Run
only after, there is one of either, and while the Run is between two connections the client has none;
so `setConn` never replaces a connection.  `Accounted`: every open connection is the client's, in the
hand of somebody who will store or close it, or crossed Close.  `Closing` ties the steps of shutdown to
the flags and says that after the sweep the client's connection is none or crossed.

`ListedIsFed` is not inductive: whether a subscription that is being registered will be fed depends on
where its request stands and on how far the reconnect hook has come.  `Hopeful` says it of every
subscription that is answered or listed: its push is on or known to be lost, or the connection is being
replaced and the list not copied yet, or the hook has copied a list and will ask for the kind.  It rests on
`Provided` (without overlapping Connects a Run never enters its first dial loop, the one that calls no
hook: the theorem `EveryReplacementIsAnnounced`), on `Counted` (`tradeSubs` is the number of listed order
subscriptions, so that only the last Cancel switches the push off) and on `Raced` (who is made or listed
while a last one is leaving is known to have raced it).

*ErrorStream and UnroutedReport.*  A select is reached with `errcMu` held, and the channel is closed
only while nobody holds it; the flag, set earlier, keeps later reports of the checking streams out.
`DropsAreExact` needs that the channel holds the numbers of settled reports, climbing, above all that were
received (`ErrcInv`), and that the second send finds room (`ErrcRoom`): then an eviction makes exactly one
report missing, and the counter's step is the cardinality's.  `EveryIdIsAccountedFor` needs `IdInv`: while
the stream is open, every id that arrived has a report or a dispatcher that is about to make it.

*MarketPush.*  `RegistryInv`: subscriptions and entries in use have keys, and an entry the hook has dealt
with as refused holds nothing that is open or can be opened; a Cancel can still remove from it, a Subscribe
no longer finds it.  `FeedInv` is about one connection: a request is made holding `subMu` for a key that is
not registered (`RequestHoldsLock`), so neither the drain nor another Subscribe comes between; an entry's
subscriptions have its key; a key registered while its unsubscribe is to come has been raced for
(`PendingIsRaced`); every open subscription has somebody who will close it, and every registered key is
fed or was raced for (`OneConnection`).  The last is stated until the first reconnect, after which
`killEntry` may orphan a subscription (above).

*OrderDesk.*  `DeskInv`: an id the caller holds names an order of the intent (`IdsNameOrders`); the rows
there when a walk started precede all later ones, and up to its cursor the walk has read them
(`WalkIsPrefix`), whence `WalkIsComplete`; an intent that is being looked up waits for the outcome
(`WalkHasReason`); and of each intent without an excuse there is one order, or one request, or neither,
and neither when the caller takes it for absent (`OnceEach`).  The proof needs that no other client's rows
are taken for the intent's (`Other \notin Intents`, an assumption of the module), and, of the two
layers' cancel calls, that one which passes its checks names an id (`WithdrawNamesAnOrder`).

*RequestAudit.*  The run tries requests that differ from a good one in at most `MaxEdits` fields and frames
that differ from a good one in one part.  The theorems about the operators drop that bound, and most
drop the lists of values as well:

- `RequestIsLetThrough`: whatever v-next lets through, of any futures, algo or market request whose prices
  are decimals, pages numbers and securities a list (`TypedRequest`), the released layer lets through.
  A call is refused by the first of its checks that fails (`RefusalOfChecks`), so it is accepted when all
  of them pass (`AcceptedChecks`); each check of the released layer is then derived from those of v-next.
- `OrderIsTheSame`: the two bodies of an accepted order, compared key by key after the keys each layer
  leaves out when empty.
- `AcceptedIsOnGrid`: the checks of `validateOrderForHK` imply the exchange's rules for any order; the first
  band whose top is not below the price is the band the price lies in.
- `RepliesAsSent`, `PushedAsSent`: any row that is nil or has the fields of its type, by mapper.
- `FrameIsAccountedFor`: any frame, verification setting and set of market and order subscriptions.
  `FrameReachesWhoAsked` assumes codes of the four markets, or without one (`KnownMarket`), as its routing
  keys do.

Each then gives its property of the specification (`VNextIsNeverLooser`, `OrdersStayTheSame`,
`OrdersAreOnGrid`, `AmountsAreAsSent`, `FramesAreAccountedFor`, `FramesReachWhoAsked`) by an invariant that
ties the state to the operators: `Asking` (the request is typed, and what was sent is what the two layers
make of it), `Composed`, `Unmapped`.

Theorems without a run beside them (their properties are part of the inductive invariants or follow from
them): `TripsExactlyAtThreshold`, `CooldownHolds`, `EndpointLimitHolds`, `WireIsThePath`, `EveryChannelHasAnOwner`,
`NothingJoinsAfterDrain`, `InnerFlightNeverContended`, `RejectionDropsSession`, `RegistryIsSound`,
`EveryReplacementIsAnnounced`.

Type correctness is a theorem of Breaker, RequestPath, OrderPush and SessionService, and part of
`RegistryIsSound` for MarketPush; the other modules' `TypeOK` documents their state.

Only model-checked: the liveness properties (the prover does not reason about fairness or ENABLED):
`CloseDrains`, `RecoversUnlessClosed`, `CloseQuiesces`, `CloseEndsEveryChannel`, `JoinersReturn`,
`WaitersReturn`, `CloseComesBack`, `WalksEnd`.

## Not modelled

- Byte layouts, protobuf and RSA: a frame is what the code finds out about it.  Password encryption.
- How long things last: `Policy.Delay`, `nextBackoff`, the freshness monitor, read deadlines.  A sleep or
  an exchange ends; nothing depends on when.
- The hook lists of the push adapter and the queues of the stream client's `sendUpdate` and `sendErr`, which repeat
  PushDelivery and ErrorStream.
- Released replies, which are handed on as decoded.  Arithmetic and formatting of money and prices.
- Replacing a type's handler while frames arrive: no caller does it.
- The service stack's Close, which calls its parts' Close in order.
- Logging, metrics and tracing, read by no decision.  Generated code, build tools, samples and the mock
  Gateway are not part of the library.
