# codicis: TLA+ specifications and proofs

codicis is an order-matching server: clients send orders over HTTP or
WebSocket, a single-threaded process matches them in price-time priority, and
child processes ("helpers"), reached over pipes, keep the durable state, check
credentials and publish market data. This directory holds TLA+ modules for its
stateful parts, the TLC instances that check them, and TLAPS proofs of the main
results for every value of the constants.

`PROJECT.json` is the index: which module models which source, the source lines
of every definition (`map`), the runs, a mutant for each property (a plausible
bug that makes the run fail), the hazards and the theorems. Paths below are relative
to the repository.

    tlc -workers 2 -config MCTradingSystem.cfg MCTradingSystem
    tlapm TradingPartsProofs.tla

## 1. The system

| Part | State | Operations |
|---|---|---|
| Trading engine (`engine/trading_engine.cc`) | arrival queue, positions loaded and loading, pulls in flight, handles | submit, cancel, drain, the answers to reports, position pulls and level pulls, auctions, seeding |
| Order book (`core/order_book.cc`, `core/matching_engine.cc`) | ladders, stops, pegs, contingent groups, auction queues, positions, resident window | submit, cancel, expire, cross_auction, take_requeued, insert_resident |
| Storage and helper client (`ipc/storage_client.cc`, `ipc/helper_client.cc`) | outbox, pending requests, deadlines | report, commit, pulls; answers, deadlines, close |
| Storage helpers (`tools/storage_helper`, `helpers/`) | orders, resting book, positions, watermark | one per message type |
| Authentication (`auth/`) | two caches, waiters, queue, slots per helper | resolve, answers, expiry |
| Feed (`feed/`, `tools/feed_helper`) | event sequence, buffers, replica, subscribers | publish, flush, decode, broadcast |
| HTTP server (`net/http_server.cc`, `net/http_parser.cc`) | connections, parsers, buffers, outstanding responders | accept, read, parse, answer, write, close, erase |
| WebSocket server (`net/websocket.cc`, `net/ws_frame.cc`, `app/server.cc`) | connections, fragments, identities, subscribers | handshake, frames, orders, subscriptions, broadcasts |
| Application server (`app/server.cc`) | ties the parts together | start, handlers, commit timer, drain at shutdown |
| Ingress (`ipc/ingress_helper.cc`, `tools/ingress_helper`, `ipc/helper_codec.cc`) | both pipes, input and output buffers, write interest | read, decode, handle, answer, write, close |
| Event loop (`event/event_loop.cc`, `event/epoll_loop.cc`) | registrations, batch, timers, deferred functions | add, modify, remove, poll, dispatch, timers, run |

An order enters through HTTP, WebSocket or ingress. The server refuses it while
the outbox is full, asks the authentication client for its owner, and hands it
to the engine. The engine reports it to the storage helper *before* it is
placed, pulls the owner's position and, with a bounded book, the price levels
that are not resident. When the answers are in, `drain()` places orders strictly
in arrival order, reports what happened and calls the submitter back. The book
emits events; the feed helper rebuilds the book from them. The WebSocket server
pushes an update to each subscriber of the symbol.

All of this runs on one thread. What makes it hard is not threads but
*callbacks*: every helper call returns before its answer, answers come in any
order, late or never; a call on a dead helper fails before it returns; a
callback may call back into the part that made it; and a descriptor may belong
to another client by the time an answer arrives.

## 2. Modules

| Module | Models | Proofs |
|---|---|---|
| `ArrivalOrder` | what the engine promises: every order decided once, in arrival order, and its submitter told once what was decided | |
| `TradingEngine` | the engine's control, with the book and the helper as nondeterministic environment | `TradingPartsProofs` |
| `Collections` | sets listed in an order, sequences with entries taken out | `CollectionsProofs` |
| `PriceTimeBook` | price-time matching in closed form, and the resident window | `TradingPartsProofs` |
| `StorageHelper` | what each request does to the store, for the in-memory reference helper and the database helpers | `TradingPartsProofs` |
| `TradingSystem` | engine + book + pipe + helper; each action conjoins one of `TradingEngine` with what the same handler does to the book and writes to the pipe | `TradingTypesProofs`, `TradingStepsProofs`, `TradingSystemProofs` |
| `Restart` | the death of the server at any moment, and a session that seeds itself from storage | `TradingSystemProofs` |
| `OrderBook` | `order_book.cc` with every order feature, on an unbounded window | |
| `BookReplica` | `book_replica.cc` | |
| `MarketData` | book and replica composed, and the properties of both | |
| `BookStore` | what the engine reports to storage about orders of every kind, and the rows that result | |
| `FeedStream` | publisher, pipe, feed helper and subscribers | `TransportProofs` |
| `StorageOutbox` | request correlation, deadlines, outbox, commits and the helper's watermark | `TransportProofs` |
| `TokenCache`, `AuthClient` | the credential caches; coalescing, slots, queue, nested callbacks | `AuthClientProofs` |
| `HttpParser` | the request parser, resumable at any token | |
| `HttpServer` | connections over that parser, pipelining, asynchronous answers, partial writes | |
| `WsServer` | connections, handshake identity, frames in parts, orders, subscriptions, broadcasts | `WsServerProofs` |
| `EventLoop` | the loop: registrations, a poll's batch, timers, deferred functions | `TransportProofs` |
| `HelperCodec` | the text and the binary codec of helper messages | |
| `Ingress` | the ingress helper and its server side, as handlers of `EventLoop` | |

The `MC*` modules only give constants their values. An operator introduced by
"Mutant:" is a faulty variant of the definition after it and is used by no
specification.

### How state and actions correspond to the code

**TradingEngine.** The variables are the members of the class of the same name
without the trailing underscore: `pending`, `next_assign_seq`,
`next_place_seq`, `position_loaded`, `position_loading`, `depth_pulls`,
`pull_ignore`, `handles`. `reports` and `closed` are the part of `HelperClient`
it can see. `Submit`, `Cancel`, `ReportReply`, `PositionReply`, `PullReply` and
`Close` are the entry points; each ends where the code calls `drain()`, which
runs as a sequence of steps with `ctl = "drain"` (stop, warm up, pull deeper
levels, place). A placement matches, writes its reports (`ctl = "reporting"`)
and calls the submitter back (`CallBack`); `calls` is the stack of callbacks
still owed. The one entry point that interrupts is `Close`, while a placement
reports: a broken pipe runs `handle_close`, the failed reports run `drain()`
again inside the placement, and the orders behind it are decided and called back
first. Whether an order needs
deeper levels, rests, and which makers it exhausts is nondeterministic here and
computed in `TradingSystem`. `ctl = "runaway"` is entered where a failed pull
calls `drain()` and `drain()` sends the same pull again on a closed helper.

**TradingSystem.** `book` is the resident book, `has_deep` is `Deep::has`,
`pipe` the requests written and not read, `reads` the pulls a database helper
runs concurrently, `replies` answers under way in no order. `truth` is a history
variable: every live order, resident or not. Requests that time out stay with
the helper, so that their answers arrive late and are ignored.

**Restart.** `CrashSeeded`, `CrashUnsent` and `CrashUnseeded` end a session
between any two steps of `TradingSystem` and start the next: everything in
memory is forgotten, the old helper applies what was written to its pipe (or,
unsent, a prefix of it), and the counters start above the watermarks that
`pull_watermarks` reads, or at 1 if the server starts unseeded. `session` holds
what ids and ranks are counted from. The reference helper's store dies with it.

**OrderBook.** `impl` is `OrderBook::Impl`. `submit()` and its callees are
sequential algorithms, so they are operators from one state of the book to the
next, named as in the code (`Submit`, `Match`, `Rest`, `EvaluateStops`,
`RepricePegs`, `ProcessLinkFills`, `ReleaseChildren`, `Cancel`, ...). `fifo`
holds all resident orders; a level's FIFO is the subsequence at its price. The
events an operation emits are in `impl.events`, and `MarketData` applies them to
the replica in the same step. `taken` is what `take_requeued` returned.

**BookStore.** `EngineSubmit`, `EngineCancel` and `EngineAuction` conjoin an
operation of the book with the reports the engine writes about it, in the order
of the code, applied to the rows of a database helper (`StorageHelper`).

**FeedStream.** Events are their sequence numbers. `stream`, `piped` and `got`
cut the events under way into the publisher's buffer, the pipe and the helper's
input buffer. A subscriber is idle, open, or dropped.

**StorageOutbox.** A request is an id and a kind. `wire` is what the helper has
not read. `handled`, `dropped`, `confirmed` and `fired` are history.

**AuthClient.** `stack` holds the activations of `on_response`, since a callback
may call `resolve()` and a closed helper answers inside `send()`.

**HttpServer, WsServer.** A connection is a record in `conn`, keyed by
descriptor; `closed` connections stay until `Erase`, the loop's deferred
function. Handlers and engine callbacks carry (descriptor, connection id).
Requests are token sequences that arrive in any pieces; `Parse` is
`HttpRequestParser::parse` as a function of the parser's state and its buffer.
A WebSocket order is a header and a payload that may arrive apart.

**EventLoop.** `registrations`, `timers`, `cancelled_timers` and `deferred` are
the members of the class; `batch` is what the last poll reported and has not
been dispatched, `at` the place in `run_once`. A step is one call-back or one
stretch between call-backs; what a handler may call (`AddFd`, `SetInterest`,
`CloseFd`, `AddTimer`, `CancelTimer`, `Stop`) are actions enabled while it runs.
`epoch` counts how often a descriptor was opened, and `dead` remembers the timers
that were cancelled; both are history. A timer keeps what is left until its
deadline, in fractions of a millisecond so that rounding matters.

**Ingress.** The helper writes records into a pipe of `PipeSize` tokens, reads
answers from another of that size and decodes them; the server's side is the handler of the
two descriptors in `EventLoop`, so that its reads, writes and close are
interleaved with the handlers of two other descriptors, timers and deferred
functions.

## 3. Abstractions shared by the modules

- One thread: an action is one handler, run to its end, unless it calls back
  into another part; then the parts of the handler are steps and a control
  variable keeps other handlers out.
- A write to a dead storage helper may notice its death (`EPIPE`) and close it
  inside the handler that writes. In a placement this is `Close` at `ctl =
  "reporting"`. Elsewhere the handler does nothing after the write that the close
  could disturb, or the other way round, so that two actions in a row reach the
  same states: `Close`, its drain and `Submit` for the position pull of `submit`;
  `Submit` and `Close` for its report; `Cancel` and `Close`; `WarmUp` and `Close`;
  `DeepPull` and `Close`, after which the pull is sent again without end.
- The engine's callbacks into `WsServer` are taken between its handlers. One made
  inside a submission, when a pipe breaks there, comes after the handler instead.
- Bytes are tokens: a line, a CRLF or a unit of a body for HTTP; a field, an id
  or a length for helper messages; a header and a payload for WebSocket frames.
  Streams are cut between any two tokens. Where a module is not about reading
  (engine, outbox, feed) messages are whole and a partial one stays unread.
- Prices, quantities and identities are small; there is no arithmetic near the
  64-bit limits in what is modelled.
- Outside `EventLoop` timers are nondeterministic: a deadline may pass at any
  moment.
- `TradingSystem` has one symbol, since symbols share only the queue, which
  `TradingEngine` models with several. A cancel of an unknown order or by
  another owner changes nothing and is no action. Reports of trades are left
  out of the pipe: helpers record them, which touches neither the resting book
  nor the positions. A refused read is an empty answer.

## 4. Runs

Deadlock is checked in `ingress`. In the other instances it is not, because each
bounds what clients send: a model that has used up its bound, like an idle
server, stops.

| Run | Instance | Distinct states | Asks |
|---|---|---|---|
| `engine_safety` | 3 orders, 2 symbols, 1 account and anonymous, window, helper may die between or inside handlers | 78,071 | report before place, refinement of `ArrivalOrder`, orders decided once pulls end |
| `engine_dead_helper` | 3 orders, helper dies; **violation** | | is every order decided? |
| `system_window` | 3 orders, window of one level, database helper, one deadline | 1,818,826 | pulls against cancels and fills; positions; can every live order be cancelled, and no other? |
| `restart` | 2 sessions of 2 orders, both helpers, one fault of any kind | 948,321 | is the book recovered, are ids fresh, does priority survive? |
| `book` | 4 of 19 orders: plain ones of each type at two prices, and one per feature | 438,068 | features in combination; replica and stored rows against the book; matching equals the closed form |
| `bracket` | parent, two legs, counter-orders; **violation** | | do the legs of a bracket exclude each other? |
| `feed` | 6 events, all buffers of 2, 2 subscribers, helper may exit | 16,363 | losses noticed, subscribers current, accepted events applied |
| `outbox` | 5 requests of any kind, limit 2, every fault | 497,182 | one callback each, watermarks sound |
| `auth` | 3 credentials, 2 helpers of depth 1, 4 requests, clock 0..2 | 869,461 | callbacks, caches, every waiter answered |
| `http` | 2 connections on one descriptor, 2 requests and 1, eleven kinds | 63,789 | own answers and bodies in order, every request answered, connections end |
| `websocket` | 2 connections on one descriptor, both ways to authenticate, 3 frames, 2 updates | 250,081 | results, identities, updates at the right client; orders answered |
| `ingress` | the two pipes and two more descriptors, 2 requests, 2 timers, either codec, pipes of 2 tokens | 423,197 | events and timers at the right handler, each request once, the helper answered |

**Why the bounds are enough to be interesting.** Three orders let an
acknowledgement overtake two others and a pull serve the second while the first
waits. A window of one level with two ask prices makes the second level leave
memory and return. Two orders in each of two sessions are a maker that rests, a
taker that fills it in part, and the two that meet what is left after the
restart. In `book`, four orders are a resting order of one feature, a
counterpart, and two that interfere; a stop that fires, a peg that follows and a
replenishing iceberg each need three. Plain makers at two prices, two of them at
one price and a taker by limit, IOC or market are what price-time priority needs. Buffers of two fill, drop, drain and drop
again within six events. Two connections on one descriptor are the least for a
late answer to meet a stranger; two requests beyond the slots of the helpers
make `pending_` grow. The bodies of the `http` run are what would end a head, so
that a parser that loses its place answers wrongly; its limits are just below
one of the requests each. Pipes of two tokens are shorter than a record, so that
every record is read and written in parts. Two descriptors beside the pipes let
the handler of one close the other when both are in the batch. `MCMenu` omits
fill-or-kill and minimum-quantity orders, market pegs, brackets (the `bracket`
run has one) and orders for the closing auction, whose branches are in
`OrderBook`, to keep the instance within minutes.

`MCMarketData.cfg` gives a `VIEW` without `impl.events` and `taken`. Every action
sets both afresh before it reads them, and no property reads their values in the
state before a step, so that states which differ only there have the same
successors and satisfy the same properties.

**Fairness.** Weak fairness only, and only of steps the process itself takes:
the event loop serves every ready descriptor in each poll, `drain()` and
callbacks run to their end, the deferred erase runs, the sweep of `HelperClient`
ends every request (with `request_timeout_ms` above 0, the default; at 0 there
are no deadlines and `EveryWaiterIsAnswered` is not claimed). Where a property needs a helper to answer (`engine_safety`,
`feed`, `ingress`), there is fairness of the helper's reading and writing, and
the property allows for its death. `DecidedOncePullsEnd` has as premise that
pulls come to an end, which section 7 explains. `http` and `websocket` assume
that handlers answer and that a client's socket becomes writable or breaks: a
client that reads nothing and never goes away keeps its answers waiting.
`ingress` assumes that the clock advances and that handlers return. Clients are
not assumed to send, to subscribe or to finish anything they began.

**Action properties** that leave out a step say so: `PegsFollowReference` and
`LinksAreProcessed` exempt the steps where the code returns before it reprices
or processes links (section 7). `ReduceOnlyNeverFlips` exempts accounts that have
entered an order the cap does not see (`uncapped`). `LiveOrdersAreCancellable`
speaks of the first session and of stores that refused nothing. `NoTradeThrough` speaks of books whose window has
not been outgrown; after a restart, of a window as large as the book and
sessions in which no pull failed and no report was refused.
`IdsAreFresh` speaks of seeded sessions in which no report was refused, and
`RestartKeepsTheBook` of deaths with every request written, in a session that
was seeded itself.

## 5. Proofs

TLAPS proves the following for all values of the constants that satisfy the
named `ASSUME`s: any symbols, accounts, orders, window sizes, buffer sizes,
numbers of subscribers and requests, and every fault. The assumptions are only
that bounds are naturals, flags Boolean, buffers not empty, and the anonymous
account not an account.

- `TradingPartsProofs`, of the engine alone: `TypeCorrect`, `ReportsPrecedePlacement`,
  `PlacementFollowsArrival`, `SubmittersAreCalledBackOnce`,
  `PositionsPrecedePlacement`, `SeedsPrecedeFills`, `WakeupsAreNotLost`,
  `WaitsAreAwaited`, `CancelsDuringPullsAreScoped`, and `EngineKeepsPromise`
  (the engine implements `ArrivalOrder`, in which what a submitter is told names
  the order it is about). The invariant adds to these
  properties that the pending orders are exactly the sequence numbers from
  `next_place_seq` to `next_assign_seq - 1` (`Counters`), that the flags of a
  pending order tell the truth about the history (`PendingTruthful`), that
  requests in flight belong to pending orders and none outlives the helper
  (`Requests`), that placed and cancellable orders lie behind (`Behind`), and that
  the callbacks still owed are those of decided orders that have had none
  (`Callbacks`). `PlacedInArrivalOrder`, for one, is not inductive alone: that the
  order placed next is newer than all placed before is `Behind` with `Counters`.
- `TradingTypesProofs`: the types of the composed system, and that each of its
  steps is a step of the engine or leaves it alone, which it is by the way
  `TradingSystem` is written; so the invariants above hold of the composition.
- `TradingSystemProofs`, over the steps of `TradingStepsProofs`: `RestartInvariant`,
  `SystemInvariant`, `ResidentIsAliveHolds`, `StoreHoldsTheBookHolds`,
  `WindowIsSound`, `RestartKeepsTheBookHolds`, `IdsAreFreshHolds`, and for one
  session `NoTradeThroughHolds`, for any
  window, any number of orders, late answers, failed pulls, a dead helper and
  restarts between any two steps. The invariant (`SysInv`) speaks of the future:
  the store *after* the requests still in the pipe (`After`) holds exactly the
  live orders (`PipeLeadsToTruth`), which covers every point between an order's
  rest and its fills; and whatever a pull in flight has seen, or may still see
  at any later point of the pipe, is alive or on `pull_ignore`
  (`SnapshotsAreCurrent`). `ResidentIsAlive` alone is not inductive, since the
  answer to a pull may be older than a cancel. Ids are below the engine's
  counter and known to the store before an order rests (`IdsAreKnown`), which is
  what a restart counts from. The condition `Clean` (a database helper, no
  refused write, no unseeded start) is the one of the runs; section 7 says what
  happens without it.
- `TransportProofs`, of the feed: `FeedTypeCorrect`, `LossesAreAlwaysNoticed`,
  `SubscribersStayCurrent`, `BufferedStaysArmed`. A loss is noticed because
  events under way are increasing and newer than the last one applied
  (`InOrder`), and because event 1 cannot be the one dropped (`FirstIsKept`):
  the first event always fits, which matters since the replica compares nothing
  with its first event.
- `TransportProofs`, of the storage client: `OutboxTypeCorrect`, `EachRequestIsCalledBackOnce`,
  `OnlyHandledIsCommitted`, `ConfirmedLeavesNothing`. The argument is that the
  pipe is in order: whatever the helper has not read is above its watermark
  (`WireIsInOrder`), an entry is handled or still on the wire
  (`EntriesAreUnderWay`), and a watermark under way covers every entry older
  than its commit (`MarksAreSound`).
- `TransportProofs`, of the event loop: `LoopInvariant`, `EventsReach`,
  `CancelledTimersStaySilent`. For events: descriptors are closed by deferred
  functions only, which run when the batch is empty, so that whatever the batch
  names is still the descriptor the poll saw (`DispatchInv`); a handler destroyed
  meanwhile is not registered any more, which `dispatch_io` looks up. For timers: a
  cancelled timer that can still be found, in the heap or as the one whose
  callback runs, is in `cancelled_timers_` (`CancelInv`); that the running
  one-shot or repeating timer is in no heap is what makes this inductive.
- `AuthClientProofs`: `AuthInvariant`, `CachesNeverDisagreeHolds`,
  `CalledBackOncePerResolveHolds`, `ServedIsGrantedHolds`,
  `SlotsAreNeverLeaked`, for any helpers, depths, capacities and lifetimes and
  any nesting of callbacks. A credential with a waiter is with one helper, or
  pending, or the one an activation of `on_response` answers next, and never two
  of these (`OneRequestEach`); `inflight` is the sum of what the helpers have
  (`SlotsAreCounted`); an entry of a cache repeats the last answer of a helper
  (`CachesInv`). Callbacks are counted by sums over the waiters, so that the
  proof needs sums over finite sets.
- `WsServerProofs`: `WsInvariant`, `ResultsAreOwnHolds`,
  `SubscribersSeeAllHolds`, `OrdersAreOwnedHolds`, for any number of
  descriptors, users and frames. Connection ids are not handed out twice
  (`IdsAreUnique`) and nothing is kept under an id still to come (`IdsAreOld`);
  with them a late verdict, a late answer about a credential or a broadcast
  finds its own connection or none. What is kept about a connection's identity
  fits its own handshake (`IdentitiesFit`), an order that waits has had no result
  (`ResultsFit`), and a subscriber lacks at most the update that
  a broadcast has yet to bring it (`SubscribersInv`), the close callbacks that
  run inside the broadcast included.
- `CollectionsProofs` and the second half of `TradingPartsProofs` have the lemmas
  about the operators, for every input: sums over finite sets, sets listed in
  order, parts of sequences, the largest of a set, the fills of a match (no more
  than the order asks for, none beyond its price) and the store after the
  requests of a pipe. Induction over numbers and finite
  sets is done on sets: the set of the numbers with a property contains 0 and is
  closed under successor (`NatSetInduction`), which the provers can instantiate
  where they cannot the library's induction over a predicate.

Several of the engine's invariants (`PlacedInArrivalOrder`, `NoLostWakeup`,
`EveryWaitIsAwaited`, `SeedPrecedesFills` and others) are proved and no longer
listed in a run. Each inductive invariant was model-checked on the instance of
its run before it was proved.

Only model-checked: all liveness (the prover does not do fairness or `ENABLED`);
the book with every order feature, its replica, its rows and the HTTP parser
(`OrderBook`, `MarketData`, `BookStore`, `HttpParser` and with it `HttpServer`),
whose algorithms are `RECURSIVE` operators, which the provers do not take;
`PositionsAgree` and `LiveOrdersAreCancellable` of `TradingSystem`, and
`NoTradeThrough` after a restart; and the properties of `Ingress`.

## 6. Findings

- **An order waits for ever once the storage helper has died**
  (`engine_dead_helper`). The position pull of a new account fails inside
  `ensure_position`, whose callback finds no pending order to release since
  `submit` has not recorded it yet; `ensure_position` still answers "wait"
  (`trading_engine.cc:70`). Nothing will ever set `pos_ready`, and all later
  orders wait behind it. `trading_engine.cc:106` says the failure ends the wait.
- **The legs of a bracket do not cancel each other** (`bracket`). A stop-loss
  released by its parent is parked, and `submit` returns before it is
  registered as a leg (`order_book.cc:1340`); the take-profit fills, and the
  stop-loss stays armed. `order_book.cc:1544` and a unit test say the pair is
  mutually cancelling.

## 7. Behaviours met while modelling

The following are what the code does; the models reproduce them, and the runs
above are stated so as to hold. They are recorded here because a reader of the
properties may wonder about the exemptions.

*Engine and storage.*
- With a bounded window, `from` of a pull is the edge of the resident window, so
  a better level that is only in storage can be passed over
  (`trading_engine.cc:134`). `NoTradeThrough` therefore speaks of
  books nothing of which is beyond the window.
- `Deep::has` is never cleared (`order_book.cc:697`), so the engine may pull
  again levels that are gone, for ever if the order is a market order or its
  limit is past the worst resident level (`trading_engine.cc:121`): hence the
  premise of `DecidedOncePullsEnd`. On a closed helper the pull fails inside
  `drain()`, and the recursion has no end (`ctl = "runaway"`).
- A pulled order has lost its owner and flags: its later fills do not move a
  position (`trading_engine.cc:198`).
- The reference helper subtracts the fill of a taker that then rests, whose
  `report_rest` already carries the remainder (`trading_engine.cc:279`,
  `tools/storage_helper/main.cc:175`); database helpers store the remainder.
  `StoreHoldsTheBook` is checked with the database helper.
- `report()` looks at the transport, not at `status=error`, so an order whose
  write a database refused is placed (`storage_client.cc:15`). A refused write
  moves the watermark all the same, and a commit drops its entry.
- Entries of reports that failed in transport stay in the outbox until a later
  watermark covers them, for ever if the helper is dead.
- Re-queued orders are reported from copies made when they were re-queued, after
  the fills of the same operation (`trading_engine.cc:283`). An iceberg that is
  replenished and then filled further by the same order gets a row with the old
  quantity, and one that is filled to the end gets its row back.
  `StorageRebuildsTheQueue` is about prices and ranks.
- Orders removed by self-trade prevention, an OCO sibling or expiry, released
  children and auction remainders that rest, and fired stops that rest later are
  not reported to storage; a stop that fires on entry and rests is reported as a
  default `Order` with id 0. `StorageRebuildsTheQueue` speaks of orders that have
  a row. A parked stop has no handle, so that a client cannot cancel it.
- The remaining quantity a taker's fill report carries is measured against what
  the client asked for, also when a reduce-only cap made the order smaller.

*Restart.*
- A server that dies with requests unwritten leaves storage at a prefix of them,
  between an order's rest and its fills for example; the restored book may then
  be crossed (`RestartKeepsTheBook` exempts it).
- A session that starts unseeded, because the watermarks are late or the helper
  answered with `status=error` (`storage_client.cc:212`), reuses ids. If
  `storage.request_timeout_ms` is longer than the wait of about ten seconds, the
  late answer writes to a flag whose block has ended (`server.cc:361`).
- After a refused `report_order` the order trades although storage does not know
  its id, and a later session hands the id out again.
- With `mem_levels` 0 no stored order is ever loaded again, and levels beyond
  the first pull of a symbol are not noted as deep, so that an order that needs
  them does not ask for them (`trading_engine.cc:150`). The `restart` run has a
  window as large as the book, so that the first pull brings everything back.
- The model takes the old helper to be finished when the new one is asked; a
  helper that still works off its pipe at that time would make the watermarks
  too low.

- Bytes read together with the end of a helper's output are not decoded
  (`helper_client.cc:124`, and likewise for ingress and WebSocket frames).

*Order book.*
- A stop that fires on entry, and an auction, return before pegs are repriced
  and links processed. So do stops, pegs and auction orders before the reduce-only
  cap (`order_book.cc:1313`, `1340`, `1358`; the cap is at 1383): a reduce-only
  stop can turn a position round when it fires. `ReduceOnlyNeverFlips` exempts
  its account.
- An all-or-none OCO leg that rests returns before it is registered in its group
  (`order_book.cc:1411`), like the stop-loss of a bracket.
- An OCO leg or OTO child that arrives after its sibling or parent has filled is
  treated like the first of its group.
- `inject` ignores self-trade prevention of the aggressor. A hidden iceberg adds
  displayed quantity when it replenishes.
- Orders that enter late (fired stops, auction remainders) keep the rank of
  their arrival while they queue last.
- The quantity available to fill-or-kill and all-or-none orders counts makers
  that could not be filled.

*Servers and loop.*
- Whether a head is too large is asked of everything that has arrived as long as
  its end has not, and of the head alone afterwards (`http_parser.cc:380`), so
  that the answer may depend on how the stream is cut when a body follows. A
  chunk size is accumulated without a check of its width (`http_parser.cc:114`);
  sizes are small in the model.
- A function deferred by a deferred function runs after the next poll
  (`event_loop.cc:138`). The id of a one-shot timer that is cancelled after it
  fired stays in `cancelled_timers_`.
- Ingress requests read together with the end of the helper's output are not
  decoded (`ingress_helper.cc:93`); `EachRequestOnce` allows for them.
- A pipelined request after `Connection: close` is still dispatched, and
  completed responses wait while the next asynchronous one is outstanding. A
  request that does not parse is answered with 400 again at each readable event
  until the output drains.
- A WebSocket result may follow the Close frame, since `deliver_text` looks only
  for the connection. An order that arrives while the handshake's credential is
  being resolved is rejected as unauthenticated.
- A broadcast iterates the subscribers of a symbol while a failed write runs the
  close callback, which erases from the same container (`server.cc:1025`,
  `server.cc:387`). The model lets the broadcast go on or the behaviour become
  undefined (`ctl = Undefined`), and the properties speak of the former.
- A feed subscriber that was dropped and is not erased yet still gets the lines
  that fit (`tools/feed_helper/main.cc`).
- An error of `epoll_wait` other than an interrupt ends `run()` after the timers
  and deferred functions of the iteration; `Poll` leaves it out. Timers have
  positive delays, like those of the callers (`app/options.cc:32`).
- The answer for a handshake that comes after the close leaves an entry in
  `conn_owner_`; connection ids are never reused, so nobody sees it.
- A dead authentication helper stays in the rotation and denies at once;
  callbacks nest. A callback that resolves again may take the slot just freed
  ahead of `pending_`.

## 8. Not modelled

| Part | Why |
|---|---|
| `kqueue_loop.cc` | the backend of another system, with the contract of the epoll backend |
| A window together with stops, pegs, links and auctions | `OrderBook` is unbounded and `TradingSystem` has plain orders; the product is beyond TLC |
| HTTP handlers of the application server | seen as handlers that answer at once or later |
| Response and frame encoders, router, handshake digest, JSON, configuration, logging, UUIDs | functions of one message without shared state |
| Feed bridges to brokers | the control of the feed helper without subscribers; delivery belongs to the brokers' libraries |
| Process spawning, signals, TLS termination, metrics | I/O |

## 9. Plan

1. `EventLoop` as the environment of `HttpServer` and `WsServer` too, in place of
   the contract they assume of it (one callback at a time, deferred functions
   after the callbacks of a poll, level-triggered readiness).
2. A second descriptor and a second symbol in `WsServer`; the engine's verdicts
   taken from `ArrivalOrder` by refinement.
3. Proofs: `PositionsAgree` and `LiveOrdersAreCancellable`; `NoTradeThrough`
   across restarts; the request accounting of `Ingress` over the theorems of
   `EventLoop`.
